---- MODULE Spec2Model ----
(***************************************************************************)
(* The decision and position-lifecycle engine of the intraday trading bot: *)
(* TradingBot (trading_bot/main.py), the tactical templates and indicator  *)
(* functions (trading_bot/strategy/strategy.py) and the OrderManager       *)
(* (trading_bot/execution/execution.py).                                   *)
(*                                                                         *)
(* Prices are integers in hundredths of a rupee (100.00 is 10000), so that *)
(* the 1% fallback buffer and the ATR multipliers 0.7, 1.2, 1.5 are exact. *)
(* A put/call ratio is the pair [n, d] standing for n/d.  The results of    *)
(* the external pandas / pandas_ta calls on a candle frame (vwma and its   *)
(* diff, atr, the volume detectors' verdicts) are fields of the frame.     *)
(***************************************************************************)
EXTENDS Integers, Sequences, FiniteSets, TLC

\* Python's None, and pandas' NA / NaN (an indicator without enough history), a
\* value apart from every price, slope and ATR, tested for as pd.isna tests.
None == "None"
NaN == -999999

(***************************************************************************)
(* Bounds of the model.                                                    *)
(***************************************************************************)
\* The templates are driven on their own until paper_trades holds MaxTrades
\* closed trades.
MaxTrades == 1

\* The driver's loop is followed through MaxPolls calls of
\* fetch_and_process_candles.
MaxPolls == 2

\* The timestamps (minutes) of the candles the feed delivers.
Times == {1, 2}

(***************************************************************************)
(* Program constants.                                                      *)
(***************************************************************************)
\* config.SCORE_THRESHOLD
SCORE_THRESHOLD == 7
\* config.PROBABILITY_THRESHOLD
PROBABILITY_THRESHOLD == 75
\* find_atm_strike rounds to the nearest 50 rupees.
STRIKE_STEP == 5000

\* Instrument keys.  NIFTY_INDEX and NIFTY_FUT are tracked underlyings of the
\* symbol NIFTY (config.INSTRUMENTS after discovery); the two options are the
\* legs of the strike 100.00 of its option chain.
NIFTY_INDEX == "NSE_INDEX|Nifty 50"
NIFTY_FUT == "NSE_FO|NIFTY_FUT"
CE100 == "NSE_FO|NIFTY_100_CE"
PE100 == "NSE_FO|NIFTY_100_PE"
INSTRUMENTS == {NIFTY_INDEX, NIFTY_FUT}
OptionKeys == {CE100, PE100}
Keys == INSTRUMENTS \cup OptionKeys

(***************************************************************************)
(* Dictionaries: functions whose domain is the set of keys present.        *)
(***************************************************************************)
EmptyDict == [k \in {} |-> None]
Put(m, k, v) == [x \in (DOMAIN m) \cup {k} |-> IF x = k THEN v ELSE m[x]]
Del(m, k) == [x \in (DOMAIN m) \ {k} |-> m[x]]

Abs(x) == IF x < 0 THEN -x ELSE x
SetMin(S) == CHOOSE x \in S : \A y \in S : x <= y
SetMax(S) == CHOOSE x \in S : \A y \in S : x >= y

(***************************************************************************)
(* classify_day_type, strategy.py 21-44.  pcr is [n, d]; pcr > 1.2 is      *)
(* 10 n > 12 d.                                                            *)
(***************************************************************************)
DayTypes == {"BULLISH_TREND", "BEARISH_TREND", "SIDEWAYS_BULL_TRAP",
             "SIDEWAYS_BEAR_TRAP", "SIDEWAYS_CHOPPY"}

classify_day_type_swapped(opening_price, hunter_zone_high, hunter_zone_low, pcr) ==
    IF opening_price > hunter_zone_high /\ 10 * pcr.n < 9 * pcr.d
        THEN "SIDEWAYS_BULL_TRAP"
    ELSE IF opening_price < hunter_zone_low /\ 10 * pcr.n > 11 * pcr.d
        THEN "SIDEWAYS_BEAR_TRAP"
    ELSE IF opening_price > hunter_zone_high /\ 10 * pcr.n >= 12 * pcr.d
        THEN "BULLISH_TREND"
    ELSE IF opening_price < hunter_zone_low /\ 10 * pcr.n < 7 * pcr.d
        THEN "BEARISH_TREND"
    ELSE "SIDEWAYS_CHOPPY"

classify_day_type(opening_price, hunter_zone_high, hunter_zone_low, pcr) ==
    IF opening_price > hunter_zone_high /\ 10 * pcr.n > 12 * pcr.d
        THEN "BULLISH_TREND"
    ELSE IF opening_price < hunter_zone_low /\ 10 * pcr.n < 7 * pcr.d
        THEN "BEARISH_TREND"
    ELSE IF opening_price > hunter_zone_high /\ 10 * pcr.n < 9 * pcr.d
        THEN "SIDEWAYS_BULL_TRAP"
    ELSE IF opening_price < hunter_zone_low /\ 10 * pcr.n > 11 * pcr.d
        THEN "SIDEWAYS_BEAR_TRAP"
    ELSE "SIDEWAYS_CHOPPY"

(***************************************************************************)
(* find_atm_strike, strategy.py 60-64: int(round(price / 50) * 50), with   *)
(* Python's round (ties go to the even integer).                           *)
(***************************************************************************)
find_atm_strike(price) ==
    LET q == price \div STRIKE_STEP
        r == price % STRIKE_STEP
        rounded == IF 2 * r < STRIKE_STEP THEN q
                   ELSE IF 2 * r > STRIKE_STEP THEN q + 1
                   ELSE IF q % 2 = 0 THEN q ELSE q + 1
    IN  rounded * STRIKE_STEP

(***************************************************************************)
(* An option chain is a sequence of strike_data records                    *)
(*   [strike_price, call_options, put_options, call_oi, put_oi]            *)
(* where a leg is its instrument key or None and *_oi is the leg's         *)
(* market_data.oi.                                                         *)
(* get_atm_option_instrument, strategy.py 66-87: the first strike equal to *)
(* the ATM strike that has the needed leg.                                 *)
(***************************************************************************)
RECURSIVE atm_scan(_, _, _, _)
atm_scan(option_chain, atm_strike, direction, k) ==
    IF k > Len(option_chain) THEN None
    ELSE LET strike_data == option_chain[k] IN
         IF strike_data.strike_price = atm_strike
            /\ direction = "BULL" /\ strike_data.call_options # None
             THEN strike_data.call_options
         ELSE IF strike_data.strike_price = atm_strike
            /\ direction = "BEAR" /\ strike_data.put_options # None
             THEN strike_data.put_options
         ELSE atm_scan(option_chain, atm_strike, direction, k + 1)

RECURSIVE any_scan(_, _, _)
any_scan(option_chain, direction, k) ==
    IF k > Len(option_chain) THEN None
    ELSE LET strike_data == option_chain[k] IN
         IF direction = "BULL" /\ strike_data.call_options # None
             THEN strike_data.call_options
         ELSE IF direction = "BEAR" /\ strike_data.put_options # None
             THEN strike_data.put_options
         ELSE any_scan(option_chain, direction, k + 1)

get_atm_option_instrument_any(option_chain, atm_strike, direction) ==
    IF option_chain = <<>> THEN None
    ELSE any_scan(option_chain, direction, 1)

get_atm_option_instrument(option_chain, atm_strike, direction) ==
    IF option_chain = <<>> THEN None
    ELSE atm_scan(option_chain, atm_strike, direction, 1)

(***************************************************************************)
(* calculate_pcr, strategy.py 403-421.                                     *)
(***************************************************************************)
\* A leg's *_oi when the leg has no market_data or its oi is None.
NoOi == -1

RECURSIVE total_oi(_, _, _)
total_oi(option_chain, leg, k) ==
    IF k > Len(option_chain) THEN 0
    ELSE LET strike_data == option_chain[k]
             oi == IF leg = "put"
                   THEN (IF strike_data.put_options # None /\ strike_data.put_oi # NoOi
                         THEN strike_data.put_oi ELSE 0)
                   ELSE (IF strike_data.call_options # None /\ strike_data.call_oi # NoOi
                         THEN strike_data.call_oi ELSE 0)
         IN  oi + total_oi(option_chain, leg, k + 1)

calculate_pcr_inverted(option_chain) ==
    IF option_chain = <<>> THEN [n |-> 1, d |-> 1]
    ELSE LET total_put_oi == total_oi(option_chain, "put", 1)
             total_call_oi == total_oi(option_chain, "call", 1)
         IN  IF total_call_oi = 0 THEN [n |-> 100, d |-> 1]
             ELSE [n |-> total_call_oi, d |-> total_put_oi]

calculate_pcr(option_chain) ==
    IF option_chain = <<>> THEN [n |-> 1, d |-> 1]
    ELSE LET total_put_oi == total_oi(option_chain, "put", 1)
             total_call_oi == total_oi(option_chain, "call", 1)
         IN  IF total_call_oi = 0 THEN [n |-> 100, d |-> 1]
             ELSE [n |-> total_put_oi, d |-> total_call_oi]

(***************************************************************************)
(* calculate_microstructure_score, strategy.py 448-472.                    *)
(***************************************************************************)
calculate_microstructure_score_lopsided(price, evwma_1m, evwma_5m, evwma_1m_slope, evwma_5m_slope) ==
    IF evwma_1m = NaN \/ evwma_5m = NaN \/ evwma_1m_slope = NaN \/ evwma_5m_slope = NaN
        THEN 0
    ELSE  (IF price > evwma_5m THEN 5 ELSE IF price < evwma_5m THEN -5 ELSE 0)
        + (IF price > evwma_1m THEN 1 ELSE 0)
        + (IF evwma_5m_slope > 0 THEN 5 ELSE IF evwma_5m_slope < 0 THEN -5 ELSE 0)
        + (IF evwma_1m_slope > 0 THEN 1 ELSE IF evwma_1m_slope < 0 THEN -1 ELSE 0)

calculate_microstructure_score(price, evwma_1m, evwma_5m, evwma_1m_slope, evwma_5m_slope) ==
    IF evwma_1m = NaN \/ evwma_5m = NaN \/ evwma_1m_slope = NaN \/ evwma_5m_slope = NaN
        THEN 0
    ELSE  (IF price > evwma_5m THEN 5 ELSE IF price < evwma_5m THEN -5 ELSE 0)
        + (IF price > evwma_1m THEN 1 ELSE IF price < evwma_1m THEN -1 ELSE 0)
        + (IF evwma_5m_slope > 0 THEN 5 ELSE IF evwma_5m_slope < 0 THEN -5 ELSE 0)
        + (IF evwma_1m_slope > 0 THEN 1 ELSE IF evwma_1m_slope < 0 THEN -1 ELSE 0)

(***************************************************************************)
(* calculate_probability_score, strategy.py 487-496.                       *)
(***************************************************************************)
calculate_probability_score_swapped(pcr_alignment, index_sync, score_force, value_area) ==
      (IF pcr_alignment THEN 30 ELSE 0) + (IF index_sync THEN 20 ELSE 0)
    + (IF score_force THEN 30 ELSE 0) + (IF value_area THEN 20 ELSE 0)

\* strategy.py 493 with 40 for 30.
calculate_probability_score_heavy(pcr_alignment, index_sync, score_force, value_area) ==
      (IF pcr_alignment THEN 20 ELSE 0) + (IF index_sync THEN 40 ELSE 0)
    + (IF score_force THEN 30 ELSE 0) + (IF value_area THEN 20 ELSE 0)

calculate_probability_score(pcr_alignment, index_sync, score_force, value_area) ==
      (IF pcr_alignment THEN 20 ELSE 0) + (IF index_sync THEN 30 ELSE 0)
    + (IF score_force THEN 30 ELSE 0) + (IF value_area THEN 20 ELSE 0)

(***************************************************************************)
(* calculate_stop_loss, strategy.py 474-485.  The multipliers are tenths:   *)
(* {"Scalp": 0.7, "Hunter": 1.2, "P2P Trend": 1.5}, default 1.0.            *)
(***************************************************************************)
multipliers(trade_type) ==
    CASE trade_type = "Scalp" -> 7
      [] trade_type = "Hunter" -> 12
      [] trade_type = "P2P Trend" -> 15
      [] OTHER -> 10

calculate_stop_loss_added(atr, trade_type, last_swing, direction, entry_price) ==
    LET volatility_buffer == IF atr # NaN THEN (multipliers(trade_type) * atr) \div 10
                             ELSE entry_price \div 100
    IN  last_swing + volatility_buffer

calculate_stop_loss(atr, trade_type, last_swing, direction, entry_price) ==
    LET volatility_buffer == IF atr # NaN THEN (multipliers(trade_type) * atr) \div 10
                             ELSE entry_price \div 100
    IN  IF direction = "BULL" THEN last_swing - volatility_buffer
        ELSE last_swing + volatility_buffer

(***************************************************************************)
(* find_recent_swing, strategy.py 506-515: the minimum low (BULL) or the   *)
(* maximum high (BEAR) of the last n candles of the frame.                 *)
(***************************************************************************)
SWING_N == 20

find_recent_swing(df, direction) ==
    IF df.candles = <<>> THEN 0
    ELSE LET len == Len(df.candles)
             first == IF len > SWING_N THEN len - SWING_N + 1 ELSE 1
             df_slice == {df.candles[k] : k \in first..len}
         IN  IF direction = "BULL" THEN SetMin({c.low : c \in df_slice})
             ELSE SetMax({c.high : c \in df_slice})

(***************************************************************************)
(* detect_pocket_pivot_volume, strategy.py 517-528, on the frame's bars    *)
(* [open, close, volume], most recent last.                                *)
(***************************************************************************)
LOOKBACK == 10

detect_pocket_pivot_volume_all(bars, lookback) ==
    IF Len(bars) < lookback + 1 THEN FALSE
    ELSE LET latest_bar == bars[Len(bars)]
         IN  IF latest_bar.close <= latest_bar.open THEN FALSE
             ELSE LET lookback_df == {bars[k] : k \in 1..(Len(bars) - 1)}
                      down_volume == {b.volume : b \in {x \in lookback_df : x.close < x.open}}
                  IN  down_volume # {} /\ latest_bar.volume > SetMax(down_volume)

detect_pocket_pivot_volume(bars, lookback) ==
    IF Len(bars) < lookback + 1 THEN FALSE
    ELSE LET latest_bar == bars[Len(bars)]
         IN  IF latest_bar.close <= latest_bar.open THEN FALSE
             ELSE LET lookback_df == {bars[k] : k \in (Len(bars) - lookback)..(Len(bars) - 1)}
                      down_volume == {b.volume : b \in {x \in lookback_df : x.close < x.open}}
                  IN  down_volume # {} /\ latest_bar.volume > SetMax(down_volume)

(***************************************************************************)
(* detect_pivot_negative_volume, strategy.py 530-541, and the two range    *)
(* detectors, strategy.py 543-565, on candles [open, high, low, close,     *)
(* volume].  The means are compared cross-multiplied: volume > 1.5 * mean  *)
(* is 2 * n * volume > 3 * sum, range < 0.7 * mean is 10 * n * range <     *)
(* 7 * sum.                                                                *)
(***************************************************************************)
detect_pivot_negative_volume(bars, lookback) ==
    IF Len(bars) < lookback + 1 THEN FALSE
    ELSE LET latest_bar == bars[Len(bars)]
         IN  IF latest_bar.close >= latest_bar.open THEN FALSE
             ELSE LET lookback_df == {bars[k] : k \in (Len(bars) - lookback)..(Len(bars) - 1)}
                      up_volume == {b.volume : b \in {x \in lookback_df : x.close > x.open}}
                  IN  up_volume # {} /\ latest_bar.volume > SetMax(up_volume)

RECURSIVE series_sum(_)
series_sum(s) == IF s = <<>> THEN 0 ELSE s[1] + series_sum(Tail(s))

detect_accumulation(df) ==
    IF Len(df) < 2 THEN FALSE
    ELSE LET latest_bar == df[Len(df)]
             n == Len(df) - 1
             range_val == latest_bar.high - latest_bar.low
             sum_range == series_sum([k \in 1..n |-> df[k].high - df[k].low])
             sum_volume == series_sum([k \in 1..n |-> df[k].volume])
         IN  /\ 2 * n * latest_bar.volume > 3 * sum_volume
             /\ 10 * n * range_val < 7 * sum_range
             /\ latest_bar.close > latest_bar.open

detect_distribution_any(df) ==
    IF Len(df) < 2 THEN FALSE
    ELSE LET latest_bar == df[Len(df)]
             n == Len(df) - 1
             range_val == latest_bar.high - latest_bar.low
             sum_range == series_sum([k \in 1..n |-> df[k].high - df[k].low])
             sum_volume == series_sum([k \in 1..n |-> df[k].volume])
         IN  /\ 2 * n * latest_bar.volume > 3 * sum_volume
             /\ 10 * n * range_val < 7 * sum_range

detect_distribution(df) ==
    IF Len(df) < 2 THEN FALSE
    ELSE LET latest_bar == df[Len(df)]
             n == Len(df) - 1
             range_val == latest_bar.high - latest_bar.low
             sum_range == series_sum([k \in 1..n |-> df[k].high - df[k].low])
             sum_volume == series_sum([k \in 1..n |-> df[k].volume])
         IN  /\ 2 * n * latest_bar.volume > 3 * sum_volume
             /\ 10 * n * range_val < 7 * sum_range
             /\ latest_bar.close < latest_bar.open

(***************************************************************************)
(* State.                                                                  *)
(***************************************************************************)
VARIABLES
    PAPER_TRADING,              \* config.PAPER_TRADING
    started,                    \* TradingBot._trading_loop has run its prologue
    discovered,                 \* DataHandler.expiry_dates / instrument_to_symbol_map are filled
    hunter_zone,                \* TradingBot.hunter_zone
    open_positions,             \* TradingBot.open_positions
    paper_positions,            \* OrderManager.paper_positions
    paper_trades,               \* OrderManager.paper_trades
    last_processed_timestamp,   \* TradingBot.last_processed_timestamp
    latest_volume_cache,        \* TradingBot.latest_volume_cache
    driver,                     \* where _trading_loop stands, and what it has done
    last                        \* the last call: its arguments, the orders it sent, how it ended

vars == <<PAPER_TRADING, started, discovered, hunter_zone, open_positions,
          paper_positions, paper_trades, last_processed_timestamp,
          latest_volume_cache, driver, last>>

\* main.py 113-114: in paper mode the trading loop makes open_positions the very
\* dictionary the order manager keeps its paper positions in.
Aliased == PAPER_TRADING /\ started

(***************************************************************************)
(* The machine a call runs on: M.op is open_positions, M.pp is             *)
(* paper_positions, M.trades is paper_trades, M.sent the calls made to the *)
(* order manager so far in this call, M.err the exception raised, M.lookup  *)
(* the direction a template looked an ATM contract up for.                 *)
(***************************************************************************)
Machine == [op |-> open_positions, pp |-> paper_positions, trades |-> paper_trades,
            sent |-> <<>>, err |-> None, lookup |-> None]

SetPaper(M, k, rec) ==
    IF Aliased THEN [M EXCEPT !.pp = Put(@, k, rec), !.op = Put(@, k, rec)]
    ELSE [M EXCEPT !.pp = Put(@, k, rec)]
DelPaper(M, k) ==
    IF Aliased THEN [M EXCEPT !.pp = Del(@, k), !.op = Del(@, k)]
    ELSE [M EXCEPT !.pp = Del(@, k)]
SetOpen(M, k, rec) ==
    IF Aliased THEN [M EXCEPT !.pp = Put(@, k, rec), !.op = Put(@, k, rec)]
    ELSE [M EXCEPT !.op = Put(@, k, rec)]
DelOpen(M, k) ==
    IF Aliased THEN [M EXCEPT !.pp = Del(@, k), !.op = Del(@, k)]
    ELSE [M EXCEPT !.op = Del(@, k)]

\* place_order without the paper branch: every order goes to the broker.
place_order_broker(M, instrument_token, transaction_type, tag, timestamp, api_ok) ==
    [M |-> [M EXCEPT !.sent = Append(@, [call |-> "place_order",
                                         instrument_token |-> instrument_token,
                                         transaction_type |-> transaction_type,
                                         tag |-> tag, broker |-> TRUE])],
     order_response |-> api_ok]

(***************************************************************************)
(* OrderManager.place_order, execution.py 20-63.  The templates and the    *)
(* stop-loss monitor always pass quantity 1, price 0, order type MARKET.   *)
(* api_ok is whether the broker call of live mode returns (it raises       *)
(* ApiException otherwise and place_order returns None).  The order id     *)
(* (a fresh uuid4 that no code reads) is left out of the records.          *)
(***************************************************************************)
place_order(M, instrument_token, transaction_type, tag, timestamp, api_ok) ==
    LET order == [call |-> "place_order", instrument_token |-> instrument_token,
                  transaction_type |-> transaction_type, tag |-> tag,
                  broker |-> ~PAPER_TRADING]
        M1 == [M EXCEPT !.sent = Append(@, order)]
    IN  IF PAPER_TRADING
        THEN [M |-> SetPaper(M1, instrument_token,
                        [instrument_key |-> instrument_token,
                         transaction_type |-> transaction_type,
                         entry_price |-> 0,
                         entry_time |-> timestamp,
                         stop_loss_price |-> 0,
                         direction |-> IF transaction_type = "BUY" THEN "BULL" ELSE "BEAR"]),
              order_response |-> TRUE]
        ELSE [M |-> M1, order_response |-> api_ok]

(***************************************************************************)
(* OrderManager.place_gtt_order, execution.py 107-139.                     *)
(***************************************************************************)
place_gtt_order(M, instrument_token, transaction_type, trigger_price) ==
    LET order == [call |-> "place_gtt_order", instrument_token |-> instrument_token,
                  transaction_type |-> transaction_type, trigger_price |-> trigger_price,
                  broker |-> ~PAPER_TRADING]
        M1 == [M EXCEPT !.sent = Append(@, order)]
    IN  IF PAPER_TRADING /\ instrument_token \in DOMAIN M1.pp
        THEN SetPaper(M1, instrument_token,
                      [M1.pp[instrument_token] EXCEPT !.stop_loss_price = trigger_price])
        ELSE M1

(***************************************************************************)
(* OrderManager.close_paper_position, execution.py 147-173.                *)
(***************************************************************************)
close_paper_position(M, instrument_key, exit_price, exit_time) ==
    IF instrument_key \in DOMAIN M.pp
    THEN LET position == M.pp[instrument_key]
             pnl == IF position.direction = "BULL"
                    THEN exit_price - position.entry_price
                    ELSE position.entry_price - exit_price
             trade == [instrument_key |-> position.instrument_key,
                       entry_price |-> position.entry_price,
                       exit_price |-> exit_price,
                       pnl |-> pnl,
                       entry_time |-> position.entry_time,
                       exit_time |-> exit_time,
                       direction |-> position.direction]
         IN  DelPaper([M EXCEPT !.trades = Append(@, trade)], instrument_key)
    ELSE M

(***************************************************************************)
(* The tactical templates.  kw is the keyword bundle of execute:           *)
(*   score, price, vpa_signal, instrument_key, hunter_zone, pcr, day_type, *)
(*   option_chain, evwma_1m, evwma_5m, df, timestamp                       *)
(* and api_ok, the fate of a live broker call made during the call.        *)
(* A frame df is [open0, candles, evwma_1m, evwma_1m_slope, evwma_5m,      *)
(* evwma_5m_slope, atr, ppv, pnv, accumulation, distribution]: candles the *)
(* sequence of [high, low, close], most recent last; open0 the first       *)
(* candle's open; the rest what pandas_ta and the detectors return on it.  *)
(***************************************************************************)

(***************************************************************************)
(* The entry sequence the three templates share, strategy.py 131-178       *)
(* (HunterTrade), 233-278 (P2PTrend), 356-401 (MeanReversion).             *)
(***************************************************************************)
enter_position(M0, kw, direction, trade_type, tag) ==
    LET M == [M0 EXCEPT !.lookup = direction]
        atm_strike == find_atm_strike(kw.price)
        option_instrument_key ==
            get_atm_option_instrument(kw.option_chain, atm_strike, direction)
    IN  IF option_instrument_key = None THEN M
        ELSE LET po == place_order(M, option_instrument_key, "BUY", tag,
                                   kw.timestamp, kw.api_ok)
             IN  IF ~po.order_response THEN po.M
                 ELSE LET atr == kw.df.atr
                          last_swing == find_recent_swing(kw.df, direction)
                          stop_loss_price ==
                              calculate_stop_loss(atr, trade_type, last_swing,
                                                  direction, kw.price)
                          M2 == place_gtt_order(po.M, option_instrument_key,
                                                "SELL", stop_loss_price)
                      IN  SetOpen(M2, kw.instrument_key,
                                  [instrument_key |-> option_instrument_key,
                                   transaction_type |-> "BUY",
                                   entry_price |-> kw.price,
                                   stop_loss_price |-> stop_loss_price,
                                   direction |-> direction])

(***************************************************************************)
(* The exit sequence of P2PTrend (strategy.py 207-227) and MeanReversion   *)
(* (324-344): the SELL order, close_paper_position, the guarded del.       *)
(***************************************************************************)
exit_position(M, kw, position, tag) ==
    LET po == place_order(M, position.instrument_key, "SELL", tag,
                          kw.timestamp, kw.api_ok)
        M2 == close_paper_position(po.M, position.instrument_key, kw.price,
                                   kw.timestamp)
    IN  IF kw.instrument_key \in DOMAIN M2.op THEN DelOpen(M2, kw.instrument_key)
        ELSE M2

(***************************************************************************)
(* HunterTrade.execute, strategy.py 96-178.                                *)
(***************************************************************************)
HunterTrade_execute(M, kw) ==
    IF Abs(kw.score) >= SCORE_THRESHOLD
    THEN LET pcr_alignment == \/ (kw.pcr.n > kw.pcr.d /\ kw.score > 0)
                              \/ (kw.pcr.n < kw.pcr.d /\ kw.score < 0)
             index_sync == TRUE
             value_area == kw.price > kw.hunter_zone.low /\ kw.price < kw.hunter_zone.high
             probability_score ==
                 calculate_probability_score(pcr_alignment, index_sync,
                                             Abs(kw.score) > 10, value_area)
         IN  IF probability_score < PROBABILITY_THRESHOLD THEN M
             ELSE enter_position(M, kw, IF kw.score > 0 THEN "BULL" ELSE "BEAR",
                                 "Hunter", "hunter_trade")
    ELSE M

(***************************************************************************)
(* P2PTrend.execute, strategy.py 187-278.                                  *)
(***************************************************************************)
\* strategy.py 205-206 with >= and <= for > and <.
P2P_exit_condition_eager(position, score) ==
    \/ (score >= 0 /\ position.direction = "BEAR")
    \/ (score <= 0 /\ position.direction = "BULL")

\* strategy.py 205-206
P2P_exit_condition(position, score) ==
    \/ (score > 0 /\ position.direction = "BEAR")
    \/ (score < 0 /\ position.direction = "BULL")

P2PTrend_execute(M, kw) ==
    IF kw.instrument_key \in DOMAIN M.op
    THEN LET position == M.op[kw.instrument_key]
         IN  IF P2P_exit_condition(position, kw.score)
             THEN exit_position(M, kw, position, "p2p_trend_exit")
             ELSE M
    ELSE IF Abs(kw.score) >= SCORE_THRESHOLD
    THEN enter_position(M, kw, IF kw.score > 0 THEN "BULL" ELSE "BEAR",
                        "P2P Trend", "p2p_trend")
    ELSE M

(***************************************************************************)
(* Scalp.execute, strategy.py 285-290.                                     *)
(***************************************************************************)
Scalp_execute(M, kw) == M

(***************************************************************************)
(* MeanReversion.execute, strategy.py 299-401.  price > evwma_5m * 1.01 is *)
(* 100 price > 101 evwma_5m.                                               *)
(***************************************************************************)
\* strategy.py 322-323 with > and < for >= and <=.
MR_exit_condition_strict(position, price, evwma_1m) ==
    \/ (position.direction = "BULL" /\ price > evwma_1m)
    \/ (position.direction = "BEAR" /\ price < evwma_1m)

\* strategy.py 322-323
MR_exit_condition(position, price, evwma_1m) ==
    \/ (position.direction = "BULL" /\ price >= evwma_1m)
    \/ (position.direction = "BEAR" /\ price <= evwma_1m)

MeanReversion_execute(M, kw) ==
    IF kw.evwma_1m = NaN \/ kw.evwma_5m = NaN THEN M
    ELSE IF kw.instrument_key \in DOMAIN M.op
    THEN LET position == M.op[kw.instrument_key]
         IN  IF MR_exit_condition(position, kw.price, kw.evwma_1m)
             THEN exit_position(M, kw, position, "mean_reversion_exit")
             ELSE M
    ELSE LET direction == IF 100 * kw.price > 101 * kw.evwma_5m THEN "BEAR"
                          ELSE IF 100 * kw.price < 99 * kw.evwma_5m THEN "BULL"
                          ELSE None
         IN  IF direction # None
             THEN enter_position(M, kw, direction, "Scalp", "mean_reversion")
             ELSE M

\* TacticalTemplate.execute of the named template.
execute(strategy, M, kw) ==
    CASE strategy = "HunterTrade" -> HunterTrade_execute(M, kw)
      [] strategy = "P2PTrend" -> P2PTrend_execute(M, kw)
      [] strategy = "MeanReversion" -> MeanReversion_execute(M, kw)
      [] strategy = "Scalp" -> Scalp_execute(M, kw)

strategies_swapped(day_type) ==
    CASE day_type \in {"BULLISH_TREND", "BEARISH_TREND"} -> "HunterTrade"
      [] day_type \in {"SIDEWAYS_BULL_TRAP", "SIDEWAYS_BEAR_TRAP"} -> "P2PTrend"
      [] day_type = "SIDEWAYS_CHOPPY" -> "MeanReversion"

\* TradingBot.strategies, main.py 89-95.
strategies(day_type) ==
    CASE day_type \in {"BULLISH_TREND", "BEARISH_TREND"} -> "P2PTrend"
      [] day_type \in {"SIDEWAYS_BULL_TRAP", "SIDEWAYS_BEAR_TRAP"} -> "HunterTrade"
      [] day_type = "SIDEWAYS_CHOPPY" -> "MeanReversion"

(***************************************************************************)
(* TradingBot.execute_strategy, main.py 262-364.                           *)
(***************************************************************************)
\* main.py 280-290: the symbol of an instrument key.
symbol_of(instrument_key) ==
    IF instrument_key \in {NIFTY_FUT, CE100, PE100}
    THEN (IF discovered THEN "NIFTY" ELSE None)
    ELSE IF instrument_key = NIFTY_INDEX THEN "NIFTY"
    ELSE None

\* main.py 317-338 and 358-364: the keyword bundle handed to the template.
strategy_kwargs(instrument_key, zone, df, timestamp, option_chain, api_ok) ==
    LET pcr == calculate_pcr(option_chain)
        price == df.candles[Len(df.candles)].close
    IN  [score |-> calculate_microstructure_score(price, df.evwma_1m, df.evwma_5m,
                                                  df.evwma_1m_slope, df.evwma_5m_slope),
         price |-> price,
         vpa_signal |-> IF df.ppv THEN "PPV" ELSE IF df.pnv THEN "PNV"
                        ELSE IF df.accumulation THEN "Accumulation"
                        ELSE IF df.distribution THEN "Distribution" ELSE None,
         instrument_key |-> instrument_key,
         hunter_zone |-> zone,
         pcr |-> pcr,
         day_type |-> classify_day_type(df.open0, zone.high, zone.low, pcr),
         option_chain |-> option_chain,
         evwma_1m |-> df.evwma_1m,
         evwma_5m |-> df.evwma_5m,
         df |-> df,
         timestamp |-> timestamp,
         api_ok |-> api_ok]

\* Returns [M, strategy]: the machine afterwards and the template executed (or None).
\* option_chain is the chain passed in or, when None is passed, the one
\* data_handler.get_option_chain returns (<<>> when the call fails).
execute_strategy_unguarded(M, instrument_key, df, timestamp, option_chain, api_ok) ==
    IF df.candles = <<>> THEN [M |-> M, strategy |-> None]
    ELSE IF instrument_key \notin DOMAIN hunter_zone THEN [M |-> M, strategy |-> None]
    ELSE IF symbol_of(instrument_key) = None \/ ~discovered THEN [M |-> M, strategy |-> None]
    ELSE IF option_chain = <<>> THEN [M |-> M, strategy |-> None]
    ELSE LET kw == strategy_kwargs(instrument_key, hunter_zone[instrument_key], df,
                                       timestamp, option_chain, api_ok)
             strategy == strategies(kw.day_type)
         IN  IF \/ (kw.score > 0 /\ ~(df.ppv \/ df.accumulation))
                \/ (kw.score < 0 /\ ~(df.pnv \/ df.distribution))
             THEN [M |-> M, strategy |-> None]
             ELSE [M |-> execute(strategy, M, kw), strategy |-> strategy]

execute_strategy_chainless(M, instrument_key, df, timestamp, option_chain, api_ok) ==
    IF df.candles = <<>> THEN [M |-> M, strategy |-> None]
    ELSE IF instrument_key \in DOMAIN M.op THEN [M |-> M, strategy |-> None]
    ELSE IF instrument_key \notin DOMAIN hunter_zone THEN [M |-> M, strategy |-> None]
    ELSE IF symbol_of(instrument_key) = None \/ ~discovered THEN [M |-> M, strategy |-> None]
    ELSE LET kw == strategy_kwargs(instrument_key, hunter_zone[instrument_key], df,
                                       timestamp, option_chain, api_ok)
             strategy == strategies(kw.day_type)
         IN  IF \/ (kw.score > 0 /\ ~(df.ppv \/ df.accumulation))
                \/ (kw.score < 0 /\ ~(df.pnv \/ df.distribution))
             THEN [M |-> M, strategy |-> None]
             ELSE [M |-> execute(strategy, M, kw), strategy |-> strategy]

execute_strategy_ungated(M, instrument_key, df, timestamp, option_chain, api_ok) ==
    IF df.candles = <<>> THEN [M |-> M, strategy |-> None]
    ELSE IF instrument_key \in DOMAIN M.op THEN [M |-> M, strategy |-> None]
    ELSE IF instrument_key \notin DOMAIN hunter_zone THEN [M |-> M, strategy |-> None]
    ELSE IF symbol_of(instrument_key) = None \/ ~discovered THEN [M |-> M, strategy |-> None]
    ELSE IF option_chain = <<>> THEN [M |-> M, strategy |-> None]
    ELSE LET kw == strategy_kwargs(instrument_key, hunter_zone[instrument_key], df,
                                       timestamp, option_chain, api_ok)
             strategy == strategies(kw.day_type)
         IN  [M |-> execute(strategy, M, kw), strategy |-> strategy]

execute_strategy(M, instrument_key, df, timestamp, option_chain, api_ok) ==
    IF df.candles = <<>> THEN [M |-> M, strategy |-> None]
    ELSE IF instrument_key \in DOMAIN M.op THEN [M |-> M, strategy |-> None]
    ELSE IF instrument_key \notin DOMAIN hunter_zone THEN [M |-> M, strategy |-> None]
    ELSE IF symbol_of(instrument_key) = None \/ ~discovered THEN [M |-> M, strategy |-> None]
    ELSE IF option_chain = <<>> THEN [M |-> M, strategy |-> None]
    ELSE LET kw == strategy_kwargs(instrument_key, hunter_zone[instrument_key], df,
                                       timestamp, option_chain, api_ok)
             strategy == strategies(kw.day_type)
         IN  IF \/ (kw.score > 0 /\ ~(df.ppv \/ df.accumulation))
                \/ (kw.score < 0 /\ ~(df.pnv \/ df.distribution))
             THEN [M |-> M, strategy |-> None]
             ELSE [M |-> execute(strategy, M, kw), strategy |-> strategy]

(***************************************************************************)
(* TradingBot.monitor_stop_loss, main.py 177-205.  The del of line 205     *)
(* raises KeyError when the instrument is not in open_positions.           *)
(***************************************************************************)
\* main.py 190-191
stop_loss_triggered_strict(position, current_price) ==
    \/ (position.direction = "BULL" /\ current_price < position.stop_loss_price)
    \/ (position.direction = "BEAR" /\ current_price > position.stop_loss_price)

stop_loss_triggered(position, current_price) ==
    \/ (position.direction = "BULL" /\ current_price <= position.stop_loss_price)
    \/ (position.direction = "BEAR" /\ current_price >= position.stop_loss_price)

monitor_stop_loss(M, instrument_key, position, current_price, timestamp, api_ok) ==
    IF stop_loss_triggered(position, current_price)
    THEN LET po == place_order(M, position.instrument_key, "SELL", "stop_loss_exit",
                               timestamp, api_ok)
         IN  IF instrument_key \in DOMAIN po.M.op THEN DelOpen(po.M, instrument_key)
             ELSE [po.M EXCEPT !.err = "KeyError"]
    ELSE M

(***************************************************************************)
(* TradingBot.calculate_hunter_zone, main.py 207-260.  A history is the    *)
(* sequence of candles data_handler.get_historical_candle_data returns for *)
(* one instrument: [day, late, high, low], late meaning at or after 14:30. *)
(***************************************************************************)
hunter_zone_of(zones, instrument_key, candles) ==
    IF candles = <<>> THEN zones
    ELSE LET rows == {candles[k] : k \in 1..Len(candles)}
             last_trading_day == SetMax({c.day : c \in rows})
             last_60_min_data == {c \in rows : c.day = last_trading_day /\ c.late}
         IN  IF last_60_min_data # {}
             THEN Put(zones, instrument_key,
                      [high |-> SetMax({c.high : c \in last_60_min_data}),
                       low |-> SetMin({c.low : c \in last_60_min_data})])
             ELSE zones

\* The loop over config.INSTRUMENTS (tracked); history[i] is what the fetch
\* returns for i.
calculate_hunter_zone(zones, tracked, history) ==
    LET z1 == IF NIFTY_INDEX \in tracked
              THEN hunter_zone_of(zones, NIFTY_INDEX, history[NIFTY_INDEX]) ELSE zones
    IN  IF NIFTY_FUT \in tracked
        THEN hunter_zone_of(z1, NIFTY_FUT, history[NIFTY_FUT]) ELSE z1

(***************************************************************************)
(* Inputs.                                                                 *)
(***************************************************************************)
Histories ==
    { <<>>,
      <<[day |-> 1, late |-> TRUE, high |-> 10000, low |-> 9000]>>,
      <<[day |-> 1, late |-> TRUE, high |-> 10900, low |-> 9600],
        [day |-> 2, late |-> TRUE, high |-> 9900, low |-> 9000],
        [day |-> 2, late |-> FALSE, high |-> 11000, low |-> 8000],
        [day |-> 2, late |-> TRUE, high |-> 10000, low |-> 9200]>>,
      <<[day |-> 1, late |-> TRUE, high |-> 10000, low |-> 9000],
        [day |-> 2, late |-> FALSE, high |-> 10100, low |-> 9900]>> }

StrikeData(strike, call, put, call_oi, put_oi) ==
    [strike_price |-> strike, call_options |-> call, put_options |-> put,
     call_oi |-> call_oi, put_oi |-> put_oi]

\* Chains with the strike 100.00 listed and both legs, by put and call open interest.
ListedChain(put_oi, call_oi) == <<StrikeData(10000, CE100, PE100, call_oi, put_oi)>>

\* A day as the cycle sees it: the first candle's open and the option chain the
\* fetch returns (<<>> when it fails; a chain without the ATM strike).
Days ==
    { <<10500, ListedChain(13, 10)>>, <<8500, ListedChain(6, 10)>>,
      <<10500, ListedChain(8, 10)>>, <<8500, ListedChain(12, 10)>>,
      <<9500, ListedChain(10, 10)>>, <<9500, <<>> >>,
      <<10500, <<StrikeData(15000, CE100, PE100, 10, 13)>> >> }

\* (evwma_1m, evwma_1m_slope, evwma_5m, evwma_5m_slope) as pandas_ta returns them.
Undefined == <<NaN, NaN, NaN, NaN>>
ShortOnly == <<10000, 0, NaN, NaN>>
Flat == <<10000, 0, 10000, 0>>
Rising == <<10000, 1, 10000, 1>>
RisingShort == <<10000, 1, 10000, 0>>
Falling == <<10000, -1, 10000, -1>>
FallingShort == <<10000, -1, 10000, 0>>

\* (ppv, pnv, accumulation, distribution) as the detectors return them.
NoVpa == <<FALSE, FALSE, FALSE, FALSE>>
PPV == <<TRUE, FALSE, FALSE, FALSE>>
PNV == <<FALSE, TRUE, FALSE, FALSE>>
Accumulation == <<FALSE, FALSE, TRUE, FALSE>>
Distribution == <<FALSE, FALSE, FALSE, TRUE>>

\* The latest candle as the cycle sees it: its close, the indicators and the
\* detectors' verdicts.
Signals ==
    { <<10400, Rising, PPV>>, <<10400, RisingShort, Accumulation>>,
      <<10400, Rising, NoVpa>>,
      <<9600, Falling, PNV>>, <<9600, FallingShort, Distribution>>,
      <<9600, Falling, PPV>>,
      <<10000, Flat, NoVpa>>, <<10400, Flat, PPV>>, <<9600, Flat, PNV>>,
      <<10000, Undefined, NoVpa>>, <<10400, ShortOnly, PPV>> }

\* The frame's candles: one flat candle at the price, after one that ranged off
\* below and above it (if off > 0); and, if old > 0, SWING_N candles in all after
\* one that ranged old below and above the price.
FlatCandle(price) == [high |-> price, low |-> price, close |-> price]
RangeCandle(price, off) == [high |-> price + off, low |-> price - off, close |-> price]

Candles(price, off, old) ==
    LET recent == IF off = 0 THEN <<FlatCandle(price)>>
                  ELSE <<RangeCandle(price, off), FlatCandle(price)>>
    IN  IF old = 0 THEN recent
        ELSE <<RangeCandle(price, old)>>
             \o [k \in 1..(SWING_N - Len(recent)) |-> FlatCandle(price)]
             \o recent

\* (atr, off, old): ta.atr's last value and the candles' ranges.  An ATR of 0 is
\* the ATR of a flat history.
EntryDetails == { <<NaN, 100, 0>>, <<0, 0, 0>>, <<100, 100, 0>>, <<100, 100, 500>> }
NoDetails == <<NaN, 0, 0>>

Frame(open0, price, ind, vpa, det) ==
    [open0 |-> open0, candles |-> Candles(price, det[2], det[3]),
     evwma_1m |-> ind[1], evwma_1m_slope |-> ind[2],
     evwma_5m |-> ind[3], evwma_5m_slope |-> ind[4],
     atr |-> det[1],
     ppv |-> vpa[1], pnv |-> vpa[2], accumulation |-> vpa[3], distribution |-> vpa[4]]

EmptyFrame == [Frame(9500, 10000, Undefined, NoVpa, NoDetails)
               EXCEPT !.candles = <<>>]

\* What the candle history imposes on a frame the poll builds: the 5-minute
\* EVWMA (main.py 324-328, 20 candles of 5 minutes) is defined only on a
\* history on which the ATR (strategy.py 503, 14 candles) is; an ATR of 0 is
\* the ATR of a flat history, whose EVWMAs are at the price.
ConsistentFrame(df) ==
    /\ df.evwma_5m # NaN => df.atr # NaN
    /\ df.atr = 0 => /\ df.evwma_1m \in {NaN, df.candles[Len(df.candles)].close}
                     /\ df.evwma_5m \in {NaN, df.candles[Len(df.candles)].close}

(***************************************************************************)
(* The state machine.  last records the call just made:                   *)
(*   op, key    the operation and its instrument                           *)
(*   timestamp  the timestamp of the candle a poll took up                 *)
(*   price      the price passed to monitor_stop_loss                      *)
(*   entry      the [atr, candles] of the frame the entry of a template    *)
(*              called on its own read, in a sequence of at most one       *)
(*   exit_due   the candle met the owning template's exit condition        *)
(*   stop_due   the candle's close was at or beyond the open position's    *)
(*              stop                                                       *)
(*   closed     the position the call removed, in a sequence of at most one*)
(*   sent, err  the orders it sent and the exception it raised             *)
(*   vpa_blocked  the candle's score is positive without PPV or            *)
(*              accumulation, or negative without PNV or distribution      *)
(*   no_chain   the option chain of the cycle is empty                     *)
(*   strategy, day_type  the template execute_strategy executed and the    *)
(*              day type it classified (None when it executed none)        *)
(*   contracts  the directions for which the option chain of a template's  *)
(*              call lists a contract at the ATM strike                    *)
(*   lookup     the direction the template looked a contract up for        *)
(*   api_ok     the broker answered the orders of the call                 *)
(*   args       the inputs of a call made on its own (None in the bot's    *)
(*              own loop)                                                  *)
(***************************************************************************)
NoCall == [op |-> None, key |-> None, timestamp |-> 0, price |-> 0, entry |-> <<>>,
           exit_due |-> FALSE, stop_due |-> FALSE, closed |-> <<>>, sent |-> <<>>,
           err |-> None, vpa_blocked |-> FALSE, no_chain |-> FALSE,
           strategy |-> None, day_type |-> None, contracts |-> {}, lookup |-> None,
           api_ok |-> TRUE, args |-> None]

Call(op, key) == [NoCall EXCEPT !.op = op, !.key = key]

\* config.INSTRUMENTS: config.py 24-27 until discovery succeeds (main.py 108-110,
\* data_handler.py 194 and 198).
Tracked == IF discovered THEN INSTRUMENTS ELSE {NIFTY_INDEX}

\* The position a call on key removed from open_positions, if any.
Closed(M, key) ==
    IF key \in DOMAIN open_positions /\ key \notin DOMAIN M.op
    THEN <<open_positions[key]>> ELSE <<>>

Commit(M, call) ==
    /\ open_positions' = M.op
    /\ paper_positions' = M.pp
    /\ paper_trades' = M.trades
    /\ last' = [call EXCEPT !.sent = M.sent, !.err = M.err, !.lookup = M.lookup,
                            !.closed = Closed(M, call.key)]

ApiOutcomes == IF PAPER_TRADING THEN {TRUE} ELSE BOOLEAN

\* The candle satisfies the exit condition of the template that owns the day
\* (strategy.py 205-206 and 322-323) and passes every other guard of
\* execute_strategy.
ExitDue(instrument_key, df, option_chain) ==
    /\ instrument_key \in DOMAIN open_positions
    /\ df.candles # <<>>
    /\ instrument_key \in DOMAIN hunter_zone
    /\ symbol_of(instrument_key) # None /\ discovered
    /\ option_chain # <<>>
    /\ LET kw == strategy_kwargs(instrument_key, hunter_zone[instrument_key], df,
                                 1, option_chain, TRUE)
           strategy == strategies(kw.day_type)
           position == open_positions[instrument_key]
       IN  /\ ~(kw.score > 0 /\ ~(df.ppv \/ df.accumulation))
           /\ ~(kw.score < 0 /\ ~(df.pnv \/ df.distribution))
           /\ \/ strategy = "P2PTrend" /\ P2P_exit_condition(position, kw.score)
              \/ /\ strategy = "MeanReversion"
                 /\ kw.evwma_1m # NaN /\ kw.evwma_5m # NaN
                 /\ MR_exit_condition(position, kw.price, kw.evwma_1m)

\* main.py 346-350: the volume analysis does not confirm the score's sign.
VpaBlocked(df) ==
    LET price == df.candles[Len(df.candles)].close
        score == calculate_microstructure_score(price, df.evwma_1m, df.evwma_5m,
                                                df.evwma_1m_slope, df.evwma_5m_slope)
    IN  \/ (score > 0 /\ ~df.ppv /\ ~df.accumulation)
        \/ (score < 0 /\ ~df.pnv /\ ~df.distribution)

\* The candle's close is at or beyond the stop of the instrument's open position.
StopDue(instrument_key, price) ==
    /\ instrument_key \in DOMAIN open_positions
    /\ LET position == open_positions[instrument_key]
       IN  \/ position.direction = "BULL" /\ price <= position.stop_loss_price
           \/ position.direction = "BEAR" /\ price >= position.stop_loss_price

(***************************************************************************)
(* One call of execute_strategy on a non-empty frame.  The ATR, the        *)
(* candles' lows and highs and the broker's answer are read only after an  *)
(* order is placed (strategy.py 131-178), so they are drawn only then.     *)
(***************************************************************************)
CycleOutcomes(op, instrument_key, timestamp, day, signal) ==
    LET open0 == day[1]
        option_chain == day[2]
        price == signal[1]
        ind == signal[2]
        vpa == signal[3]
        df0 == Frame(open0, price, ind, vpa, NoDetails)
        r0 == execute_strategy(Machine, instrument_key, df0, timestamp,
                               option_chain, TRUE)
        call == [Call(op, instrument_key) EXCEPT
                    !.timestamp = IF op = "fetch_and_process_candles"
                                  THEN timestamp ELSE 0,
                    !.exit_due = ExitDue(instrument_key, df0, option_chain),
                    !.stop_due = StopDue(instrument_key, price),
                    !.vpa_blocked = VpaBlocked(df0),
                    !.no_chain = (option_chain = <<>>),
                    !.strategy = r0.strategy,
                    !.day_type =
                        IF r0.strategy = None THEN None
                        ELSE classify_day_type(open0,
                                               hunter_zone[instrument_key].high,
                                               hunter_zone[instrument_key].low,
                                               calculate_pcr(option_chain))]
    IN  IF r0.M.sent = <<>>
        THEN {[M |-> r0.M, call |-> call]}
        ELSE {[M |-> execute_strategy(Machine, instrument_key,
                                      Frame(open0, price, ind, vpa, x[1]),
                                      timestamp, option_chain, x[2]).M,
               call |-> [call EXCEPT !.api_ok = x[2]]] :
              x \in {y \in EntryDetails \X ApiOutcomes :
                        ConsistentFrame(Frame(open0, price, ind, vpa, y[1]))}}

RunStrategy(op, instrument_key, timestamp) ==
    \E day \in Days, signal \in Signals :
        \E out \in CycleOutcomes(op, instrument_key, timestamp, day, signal) :
            Commit(out.M, out.call)

\* main.py 98-114: discovery, the hunter zone, and in paper mode open_positions
\* becomes the order manager's paper_positions dictionary itself.
TradingLoopStart ==
    /\ ~started
    /\ started' = TRUE
    /\ \E ok \in BOOLEAN, history \in [INSTRUMENTS -> Histories] :
          /\ discovered' = (discovered \/ ok)
          /\ hunter_zone' = calculate_hunter_zone(hunter_zone,
                               IF discovered \/ ok THEN INSTRUMENTS ELSE {NIFTY_INDEX},
                               history)
    /\ open_positions' = IF PAPER_TRADING THEN paper_positions ELSE open_positions
    /\ last' = Call("_trading_loop", None)
    /\ UNCHANGED <<driver, PAPER_TRADING, paper_positions, paper_trades,
                   last_processed_timestamp, latest_volume_cache>>

\* The dates current_datetime may fall on: the day of the histories' latest
\* candles (the session under way; to_date, main.py 220, includes it) and the
\* day after.
Todays == {2, 3}

\* main.py 207-260 called on its own.
CalculateHunterZone ==
    /\ \E history \in [INSTRUMENTS -> Histories], current_datetime \in Todays :
          /\ hunter_zone' = calculate_hunter_zone(hunter_zone, Tracked, history)
          /\ last' = [Call("calculate_hunter_zone", None) EXCEPT
                         !.args = [current_datetime |-> current_datetime,
                                   history |-> history]]
    /\ UNCHANGED <<driver, PAPER_TRADING, started, discovered, open_positions, paper_positions,
                   paper_trades, last_processed_timestamp, latest_volume_cache>>

Volume == 100

\* main.py 130-162: one iteration of fetch_and_process_candles' loop.
Poll(instrument_key) ==
    /\ started
    /\ instrument_key \in Tracked
    /\ \/ \* no candles (line 139)
          /\ last' = Call("fetch_and_process_candles", instrument_key)
          /\ UNCHANGED <<open_positions, paper_positions, paper_trades,
                         last_processed_timestamp, latest_volume_cache>>
       \/ \* the latest candle is the one already processed (line 148)
          /\ instrument_key \in DOMAIN last_processed_timestamp
          /\ last' = [Call("fetch_and_process_candles", instrument_key) EXCEPT
                        !.timestamp = last_processed_timestamp[instrument_key]]
          /\ UNCHANGED <<open_positions, paper_positions, paper_trades,
                         last_processed_timestamp, latest_volume_cache>>
       \/ \E candle_timestamp \in Times :
            /\ instrument_key \in DOMAIN last_processed_timestamp
                  => candle_timestamp > last_processed_timestamp[instrument_key]
            /\ last_processed_timestamp' =
                  Put(last_processed_timestamp, instrument_key, candle_timestamp)
            /\ latest_volume_cache' = Put(latest_volume_cache, instrument_key, Volume)
            /\ RunStrategy("fetch_and_process_candles", instrument_key, candle_timestamp)
    /\ UNCHANGED <<driver, PAPER_TRADING, started, discovered, hunter_zone>>

\* main.py 177-205 called with a position and a price at, below or above its stop.
MonitorStopLoss(instrument_key, position, timestamp) ==
    /\ \E d \in {-100, 0, 100}, api_ok \in ApiOutcomes :
          \E out \in
              LET current_price == position.stop_loss_price + d
                  M == monitor_stop_loss(Machine, instrument_key, position,
                                         current_price, timestamp, api_ok)
              IN  {[M |-> M,
                    call |-> [Call("monitor_stop_loss", instrument_key) EXCEPT
                                 !.price = current_price,
                                 !.api_ok = (api_ok \/ M.sent = <<>>)]]} :
              Commit(out.M, out.call)
    /\ UNCHANGED <<driver, PAPER_TRADING, started, discovered, hunter_zone,
                   last_processed_timestamp, latest_volume_cache>>

\* The time of the instrument's latest candle (of the first, before any).
CandleTime(instrument_key) ==
    IF instrument_key \in DOMAIN last_processed_timestamp
    THEN last_processed_timestamp[instrument_key] ELSE 1

\* The stop-loss check on a tracked instrument's open position.
MonitorOpen ==
    \E instrument_key \in DOMAIN open_positions \cap INSTRUMENTS :
        MonitorStopLoss(instrument_key, open_positions[instrument_key],
                        CandleTime(instrument_key))

\* The stop-loss check made with the position read before the template, in the
\* same cycle, closed it.
MonitorAfterExit ==
    /\ last.closed # <<>>
    /\ last.op \in {"P2PTrend", "MeanReversion"}
    /\ MonitorStopLoss(last.key, last.closed[1], CandleTime(last.key))

(***************************************************************************)
(* A template's execute called on its own with the keyword bundle of a     *)
(* frame (strategy.py 96, 187, 285, 299; tests/test_strategy.py).          *)
(***************************************************************************)
HunterZone == [high |-> 10000, low |-> 9000]
\* Chains that list the ATM strike 100.00 with both legs, only the call or only
\* the put; a chain that lists another strike; no chain.
TemplateChains ==
    { ListedChain(13, 10), ListedChain(6, 10),
      <<StrikeData(10000, CE100, None, 10, NoOi)>>,
      <<StrikeData(10000, None, PE100, NoOi, 13)>>,
      <<StrikeData(15000, CE100, PE100, 10, 13)>>,
      <<>> }

\* The directions for which the chain lists a contract at the price's ATM strike.
Contracts(option_chain, price) ==
    { direction \in {"BULL", "BEAR"} :
        \E k \in 1..Len(option_chain) :
            /\ option_chain[k].strike_price = find_atm_strike(price)
            /\ IF direction = "BULL" THEN option_chain[k].call_options # None
               ELSE option_chain[k].put_options # None }
Strategies == {"HunterTrade", "P2PTrend", "Scalp", "MeanReversion"}
PollOp == "fetch_and_process_candles"
Templates == {"HunterTrade", "P2PTrend", "MeanReversion"}

\* The price and the indicators of the keyword bundle (a template reads no
\* detector's verdict).
TemplateSignals == {<<signal[1], signal[2]>> : signal \in Signals}

\* The outcomes of one call of a template's execute: the machine it leaves and
\* the record of the call.  The ATR, the candles' ranges (drawn from details)
\* and the broker's answer are read only after an order is placed.
TemplateOutcomes(strategy, instrument_key, option_chain, signal, details) ==
    LET price == signal[1]
        ind == signal[2]
        df0 == Frame(9500, price, ind, NoVpa, NoDetails)
        M0 == execute(strategy, Machine,
                      strategy_kwargs(instrument_key, HunterZone, df0, 1,
                                      option_chain, TRUE))
        call == [Call(strategy, instrument_key) EXCEPT
                    !.contracts = Contracts(option_chain, price)]
        timestamp == CandleTime(instrument_key)
        entered(x) ==
            LET df == Frame(9500, price, ind, NoVpa, x[1])
                M == execute(strategy, Machine,
                             strategy_kwargs(instrument_key, HunterZone, df,
                                             timestamp, option_chain, x[2]))
            IN  [M |-> M,
                 call |-> [call EXCEPT !.api_ok = x[2], !.entry =
                              IF /\ instrument_key \in DOMAIN M.op
                                 /\ M.op # open_positions
                              THEN <<[atr |-> df.atr, candles |-> df.candles]>>
                              ELSE <<>>]]
    IN  IF M0.sent = <<>>
        THEN {[M |-> M0, call |-> call]}
        ELSE {entered(x) : x \in details \X ApiOutcomes}

TemplateExecute(strategy, instrument_key) ==
    /\ Len(paper_trades) < MaxTrades
    /\ \E option_chain \in TemplateChains, signal \in TemplateSignals :
          \E out \in TemplateOutcomes(strategy, instrument_key, option_chain, signal,
                                      EntryDetails) :
              Commit(out.M, out.call)
    /\ UNCHANGED <<driver, PAPER_TRADING, started, discovered, hunter_zone,
                   last_processed_timestamp, latest_volume_cache>>

(***************************************************************************)
(* The driver: TradingBot._trading_loop (main.py 116-128) and the loop of  *)
(* fetch_and_process_candles (main.py 135-162).                            *)
(*   pc       "while" at the top of the while loop, "for" between two      *)
(*            iterations of the for loop, "entry_placed" and "stop_placed" *)
(*            inside a template's entry sequence, "sleep" in time.sleep,   *)
(*            "terminated" once the process has exited                     *)
(*   todo     the instruments the for loop has still to visit              *)
(*   pending  the entry in flight, in a sequence of at most one: the       *)
(*            underlying and the position the template is about to record  *)
(*   polls    the calls of fetch_and_process_candles so far                *)
(*   cycles   the calls of execute_strategy so far, each                   *)
(*            <<instrument, candle timestamp>>                            *)
(*   errors   the exceptions the handler of line 161 has logged, each      *)
(*            <<instrument, candle timestamp or 0>>                        *)
(***************************************************************************)
NotRunning == [pc |-> "while", todo |-> <<>>, pending |-> <<>>, polls |-> 0,
               cycles |-> <<>>, errors |-> <<>>]

Init ==
    /\ PAPER_TRADING \in BOOLEAN
    /\ started = FALSE
    /\ discovered = FALSE
    /\ hunter_zone = EmptyDict
    /\ open_positions = EmptyDict
    /\ paper_positions = EmptyDict
    /\ paper_trades = <<>>
    /\ last_processed_timestamp = EmptyDict
    /\ latest_volume_cache = EmptyDict
    /\ driver = NotRunning
    /\ last = NoCall

\* The bot as main.py runs it: the start of the trading loop, the polls and the
\* stop-loss check.
Next ==
    \/ TradingLoopStart
    \/ \E instrument_key \in INSTRUMENTS : Poll(instrument_key)
    \/ MonitorOpen

Spec == Init /\ [][Next]_vars

\* The templates and the stop-loss monitor driven directly.
NextUnit ==
    \/ \E strategy \in Strategies : TemplateExecute(strategy, NIFTY_INDEX)
    \/ MonitorOpen
    \/ MonitorAfterExit

SpecUnit == Init /\ [][NextUnit]_vars

\* A template called on a bot that holds no position yet.
FirstEntry ==
    /\ open_positions = EmptyDict
    /\ paper_positions = EmptyDict
    /\ \E strategy \in Strategies, instrument_key \in INSTRUMENTS :
          TemplateExecute(strategy, instrument_key)

SpecEntry == Init /\ [][FirstEntry]_vars

(***************************************************************************)
(* The templates called one after the other for one instrument, each call  *)
(* recorded with the keyword bundle it was given.                          *)
(***************************************************************************)
\* Prices on, and 1% below and above, EVWMAs of 100.00, and prices beyond.
CallSignals ==
    TemplateSignals \cup { <<10100, Flat>>, <<9900, Flat>>, <<10100, Rising>>,
                           <<9900, Falling>> }

\* Chains with a PCR above and below 1, and no chain.
CallChains == { ListedChain(13, 10), ListedChain(6, 10), <<>> }

\* A history with an ATR of 1.00.
CallDetails == { <<100, 100, 0>> }

TemplateCall(strategy, instrument_key) ==
    /\ Len(paper_trades) < MaxTrades
    /\ \E option_chain \in CallChains, signal \in CallSignals :
          \E out \in TemplateOutcomes(strategy, instrument_key, option_chain, signal,
                                      CallDetails),
             kw \in {strategy_kwargs(instrument_key, HunterZone,
                                     Frame(9500, signal[1], signal[2], NoVpa,
                                           NoDetails),
                                     1, option_chain, TRUE)} :
              Commit(out.M, [out.call EXCEPT !.args =
                                [score |-> kw.score, price |-> kw.price,
                                 pcr |-> kw.pcr, hunter_zone |-> kw.hunter_zone,
                                 evwma_1m |-> kw.evwma_1m,
                                 evwma_5m |-> kw.evwma_5m]])
    /\ UNCHANGED <<driver, PAPER_TRADING, started, discovered, hunter_zone,
                   last_processed_timestamp, latest_volume_cache>>

NextTemplate == \E strategy \in Templates : TemplateCall(strategy, NIFTY_INDEX)

SpecTemplate == Init /\ [][NextTemplate]_vars

(***************************************************************************)
(* execute_strategy called on its own (tests/test_main.py 82-101,          *)
(* scripts/backtest.py) for an instrument with a hunter zone, on a bot     *)
(* that holds no position yet.                                             *)
(***************************************************************************)
\* Indicators of a history one 5-minute candle short of the long slope: both
\* EVWMAs and the short slope are defined (20 candles of 5 minutes), the long
\* slope (21) is not.
NoLongSlope == <<10000, 0, 10000, NaN>>

CycleSignals ==
    Signals \cup { <<10400, NoLongSlope, NoVpa>>, <<9600, NoLongSlope, PNV>>,
                   <<10000, NoLongSlope, NoVpa>> }

\* Days, and days whose chain has no call open interest at all (strategy.py
\* 418-421).
CycleDays ==
    Days \cup { <<10500, ListedChain(13, 0)>>, <<9500, ListedChain(13, 0)>>,
                <<8500, ListedChain(0, 0)>> }

FirstCycle ==
    /\ open_positions = EmptyDict
    /\ paper_positions = EmptyDict
    /\ \E instrument_key \in DOMAIN hunter_zone, day \in CycleDays,
          signal \in CycleSignals :
          \E out \in CycleOutcomes("execute_strategy", instrument_key, 1, day, signal) :
             Commit(out.M, [out.call EXCEPT !.args = [day |-> day, signal |-> signal]])
    /\ UNCHANGED <<driver, PAPER_TRADING, started, discovered, hunter_zone,
                   last_processed_timestamp, latest_volume_cache>>

NextCycle == TradingLoopStart \/ FirstCycle

SpecCycle == Init /\ [][NextCycle]_vars

(***************************************************************************)
(* classify_day_type (tests/test_strategy.py 10-20), calculate_hunter_zone *)
(* and the tick callback (tests/test_main.py 16-80) applied on their own.   *)
(***************************************************************************)
OpeningPrices == {8500, 9000, 9500, 10000, 10500}
ZoneBounds == {<<10000, 9000>>, <<9500, 9500>>, <<10500, 8500>>}
PcrValues == {[n |-> k, d |-> 10] : k \in 6..13} \cup {[n |-> 100, d |-> 1], [n |-> 1, d |-> 1]}

ClassifyDayType ==
    /\ \E opening_price \in OpeningPrices, zone \in ZoneBounds, pcr \in PcrValues :
          last' = [op |-> "classify_day_type",
                   args |-> [opening_price |-> opening_price, hunter_zone_high |-> zone[1],
                             hunter_zone_low |-> zone[2], pcr |-> pcr],
                   result |-> classify_day_type(opening_price, zone[1], zone[2], pcr)]
    /\ UNCHANGED <<driver, PAPER_TRADING, started, discovered, hunter_zone, open_positions,
                   paper_positions, paper_trades, last_processed_timestamp,
                   latest_volume_cache>>

\* The methods class TradingBot defines (main.py 35-364) and the attributes its
\* constructor sets (main.py 43-51).
TradingBotMethods ==
    {"__init__", "run", "_authenticate", "_initialize_modules", "_trading_loop",
     "fetch_and_process_candles", "_is_market_hours", "monitor_stop_loss",
     "calculate_hunter_zone", "execute_strategy"}
TradingBotAttributes ==
    {"config", "api_client", "data_handler", "order_manager", "hunter_zone",
     "strategies", "open_positions", "last_processed_timestamp",
     "latest_volume_cache"}

\* The last price and last quantity of a tick (tests/test_main.py 24-25, 63-64).
TickPrices == {10000, 10500}
TickQuantities == {50, 75}

\* bot._on_message(message) with one tick of an instrument, then a read of
\* bot.one_minute_candles, as tests/test_main.py 34-39 and 71-80 do: a name the
\* class and its constructor do not define raises AttributeError.
OnMessage ==
    /\ \E instrument_key \in INSTRUMENTS, ltp \in TickPrices, ltq \in TickQuantities :
          last' = [op |-> "_on_message",
                   args |-> [instrument_key |-> instrument_key, ltp |-> ltp, ltq |-> ltq],
                   err |-> IF "_on_message" \in TradingBotMethods
                           THEN None ELSE "AttributeError",
                   one_minute_candles |->
                       IF "one_minute_candles" \in TradingBotAttributes
                       THEN EmptyDict ELSE None]
    /\ UNCHANGED <<driver, PAPER_TRADING, started, discovered, hunter_zone, open_positions,
                   paper_positions, paper_trades, last_processed_timestamp,
                   latest_volume_cache>>

NextFn == ClassifyDayType \/ CalculateHunterZone \/ OnMessage

SpecFn == Init /\ [][NextFn]_vars

(***************************************************************************)
(* The indicator functions applied on their own (tests/test_strategy.py).  *)
(***************************************************************************)
\* The unchanged bot state of a call of a pure function.
PureCall ==
    UNCHANGED <<driver, PAPER_TRADING, started, discovered, hunter_zone, open_positions,
                paper_positions, paper_trades, last_processed_timestamp,
                latest_volume_cache>>

\* Prices below, between, on and above a short EVWMA of 100.00 and a long one of
\* 100.50; slopes of either sign, zero and undefined.
ScorePrices == {9900, 10000, 10025, 10050, 10100}
ScoreSlopes == {NaN, -1, 0, 1}

CalculateMicrostructureScore ==
    /\ \E price \in ScorePrices, evwma_1m \in {NaN, 10000}, evwma_5m \in {NaN, 10050},
          evwma_1m_slope \in ScoreSlopes, evwma_5m_slope \in ScoreSlopes :
          last' = [op |-> "calculate_microstructure_score",
                   args |-> [price |-> price, evwma_1m |-> evwma_1m,
                             evwma_5m |-> evwma_5m,
                             evwma_1m_slope |-> evwma_1m_slope,
                             evwma_5m_slope |-> evwma_5m_slope],
                   result |-> calculate_microstructure_score(
                                  price, evwma_1m, evwma_5m,
                                  evwma_1m_slope, evwma_5m_slope)]
    /\ PureCall

CalculateProbabilityScore ==
    /\ \E pcr_alignment \in BOOLEAN, index_sync \in BOOLEAN,
          score_force \in BOOLEAN, value_area \in BOOLEAN :
          last' = [op |-> "calculate_probability_score",
                   args |-> [pcr_alignment |-> pcr_alignment, index_sync |-> index_sync,
                             score_force |-> score_force, value_area |-> value_area],
                   result |-> calculate_probability_score(pcr_alignment, index_sync,
                                                          score_force, value_area)]
    /\ PureCall

\* Strikes with both legs and an open interest that is missing, zero or
\* positive, and strikes with one leg missing; chains of up to two strikes.
PcrStrikes ==
    { StrikeData(10000, CE100, PE100, call_oi, put_oi) :
          call_oi \in {NoOi, 0, 10}, put_oi \in {NoOi, 6, 13} }
    \cup { StrikeData(10050, None, PE100, NoOi, 6),
           StrikeData(10050, CE100, None, 10, NoOi) }

PcrChains ==
    {<<>>} \cup {<<a>> : a \in PcrStrikes}
           \cup {<<a, b>> : a \in PcrStrikes, b \in PcrStrikes}

CalculatePcr ==
    /\ \E option_chain \in PcrChains :
          last' = [op |-> "calculate_pcr",
                   args |-> [option_chain |-> option_chain],
                   result |-> calculate_pcr(option_chain)]
    /\ PureCall

\* The bars before the latest: up bars of volume 18 but for the bars of the
\* pattern, each <<distance from the latest bar, open, close, volume>>.
Bar(open, close, volume) == [open |-> open, close |-> close, volume |-> volume]

PriorBars(len, pattern) ==
    [k \in 1..len |->
        IF \E sp \in pattern : sp[1] = len + 1 - k
        THEN LET sp == CHOOSE x \in pattern : x[1] = len + 1 - k
             IN  Bar(sp[2], sp[3], sp[4])
        ELSE Bar(100, 101, 18)]

\* No down bar; one just before the latest; one at the far end of the window;
\* one beyond it; two in the window; one in and a larger one beyond; a flat bar.
BarPatterns ==
    { {}, {<<1, 101, 100, 12>>}, {<<10, 101, 100, 12>>}, {<<11, 101, 100, 30>>},
      {<<1, 101, 100, 12>>, <<5, 101, 100, 15>>},
      {<<3, 101, 100, 12>>, <<11, 101, 100, 30>>},
      {<<2, 100, 100, 30>>} }

PpvHistories ==
    { PriorBars(len, pattern) \o <<Bar(100, close, volume)>> :
          len \in {LOOKBACK - 1, LOOKBACK, LOOKBACK + 1}, pattern \in BarPatterns,
          close \in {99, 100, 101}, volume \in {5, 12, 13, 15, 16, 31} }

DetectPocketPivotVolume ==
    /\ \E bars \in PpvHistories :
          last' = [op |-> "detect_pocket_pivot_volume",
                   args |-> [df |-> bars],
                   result |-> detect_pocket_pivot_volume(bars, LOOKBACK)]
    /\ PureCall

\* Entry target selection (strategy.py 234-235, 122-123 and 359-360): the ATM
\* strike of the price, then the contract of the direction at that strike.
\* Chains that list every STRIKE_STEP from 100.00 to 200.00, or only every
\* other one (strikes 100.00 apart), a chain whose strike 150.00 lacks a leg,
\* and no chain; prices on, next to and half way between the strikes.
Leg(strike, side) ==
    CASE strike = 10000 -> (IF side = "CE" THEN CE100 ELSE PE100)
      [] strike = 15000 -> (IF side = "CE" THEN "NSE_FO|NIFTY_150_CE"
                            ELSE "NSE_FO|NIFTY_150_PE")
      [] strike = 20000 -> (IF side = "CE" THEN "NSE_FO|NIFTY_200_CE"
                            ELSE "NSE_FO|NIFTY_200_PE")
BothLegs(strike) ==
    StrikeData(strike, Leg(strike, "CE"), Leg(strike, "PE"), 10, 13)
StrikeChains ==
    { <<BothLegs(10000), BothLegs(15000), BothLegs(20000)>>,
      <<BothLegs(10000), BothLegs(20000)>>,
      <<BothLegs(10000), StrikeData(15000, Leg(15000, "CE"), None, 10, NoOi),
        BothLegs(20000)>>,
      <<BothLegs(10000), StrikeData(15000, None, Leg(15000, "PE"), NoOi, 13),
        BothLegs(20000)>>,
      <<>> }
StrikePrices == {10000, 12400, 12500, 12600, 14000, 15000, 16000, 17500, 19900}

SelectEntryTarget ==
    /\ \E price \in StrikePrices, option_chain \in StrikeChains,
          direction \in {"BULL", "BEAR"} :
          last' = [op |-> "get_atm_option_instrument",
                   args |-> [price |-> price, option_chain |-> option_chain,
                             direction |-> direction],
                   atm_strike |-> find_atm_strike(price),
                   result |-> get_atm_option_instrument(option_chain,
                                  find_atm_strike(price), direction)]
    /\ PureCall

\* The four volume detectors on one frame, as execute_strategy calls them
\* (main.py 341-344).  The candles before the latest are PriorBars with a
\* range of 6.00; the latest opens at 100 with a narrow or a wide range, a
\* volume below, at and above 1.5 times the usual 18, and closes below, at or
\* above its open.  Frames of one and two candles are too short for the pivots.
Ohlcv(open, high, low, close, volume) ==
    [open |-> open, high |-> high, low |-> low, close |-> close, volume |-> volume]

VpaHistories ==
    { [k \in 1..len |-> LET b == PriorBars(len, pattern)[k]
                        IN  Ohlcv(b.open, 104, 98, b.close, b.volume)]
      \o <<Ohlcv(100, hl[1], hl[2], close, volume)>> :
          len \in {0, 1, LOOKBACK - 1, LOOKBACK}, pattern \in BarPatterns,
          close \in {99, 100, 101}, hl \in {<<101, 99>>, <<106, 96>>},
          volume \in {12, 16, 27, 28, 31} }

DetectVpaSignals ==
    /\ \E df \in VpaHistories :
          last' = [op |-> "vpa_signals",
                   args |-> [df |-> df],
                   result |-> <<detect_pocket_pivot_volume(df, LOOKBACK),
                                detect_pivot_negative_volume(df, LOOKBACK),
                                detect_accumulation(df),
                                detect_distribution(df)>>]
    /\ PureCall

NextPure ==
    \/ CalculateMicrostructureScore
    \/ DetectPocketPivotVolume
    \/ CalculatePcr
    \/ CalculateProbabilityScore
    \/ SelectEntryTarget
    \/ DetectVpaSignals

SpecPure == Init /\ [][NextPure]_vars

(***************************************************************************)
(* The order manager called on its own (tests/test_execution.py 15-32).    *)
(***************************************************************************)
\* Trigger prices of a protective stop, below and above a strike of 100.00.
GttTriggers == {9800, 10200}

PlaceOrder ==
    /\ \E instrument_token \in OptionKeys, transaction_type \in {"BUY", "SELL"},
          timestamp \in Times, api_ok \in ApiOutcomes :
          \E r \in {place_order(Machine, instrument_token, transaction_type,
                                "test_tag", timestamp, api_ok)} :
             /\ paper_positions' = r.M.pp
             /\ open_positions' = r.M.op
             /\ last' = [op |-> "place_order",
                         args |-> [instrument_token |-> instrument_token,
                                   transaction_type |-> transaction_type,
                                   timestamp |-> timestamp, api_ok |-> api_ok],
                         result |-> r.order_response, sent |-> r.M.sent]
    /\ UNCHANGED <<driver, PAPER_TRADING, started, discovered, hunter_zone, paper_trades,
                   last_processed_timestamp, latest_volume_cache>>

PlaceGttOrder ==
    /\ \E instrument_token \in OptionKeys, trigger_price \in GttTriggers :
          \E M \in {place_gtt_order(Machine, instrument_token, "SELL", trigger_price)} :
             /\ paper_positions' = M.pp
             /\ open_positions' = M.op
             /\ last' = [op |-> "place_gtt_order",
                         args |-> [instrument_token |-> instrument_token,
                                   transaction_type |-> "SELL",
                                   trigger_price |-> trigger_price],
                         result |-> TRUE, sent |-> M.sent]
    /\ UNCHANGED <<driver, PAPER_TRADING, started, discovered, hunter_zone, paper_trades,
                   last_processed_timestamp, latest_volume_cache>>

NextOrder == PlaceOrder \/ PlaceGttOrder

SpecOrder == Init /\ [][NextOrder]_vars

(***************************************************************************)
(* The polling driver step by step: _trading_loop's while loop (main.py    *)
(* 116-128), the for loop of fetch_and_process_candles (135-162), the      *)
(* entry sequence of a template order by order (strategy.py 245-278), and  *)
(* the SIGINT handler installed at import (main.py 371-375).               *)
(***************************************************************************)
\* config.INSTRUMENTS in the order the for loop visits it.
InstrumentList == IF discovered THEN <<NIFTY_INDEX, NIFTY_FUT>> ELSE <<NIFTY_INDEX>>

\* main.py 147 with the test left out.
already_processed_never(instrument_key, candle_timestamp) == FALSE

\* main.py 147: the latest candle is the one last processed for the instrument.
already_processed(instrument_key, candle_timestamp) ==
    /\ instrument_key \in DOMAIN last_processed_timestamp
    /\ last_processed_timestamp[instrument_key] = candle_timestamp

\* main.py 161-162 with the try statement around the for loop: the exception
\* ends the poll.
except_Exception_outside(d, instrument_key, candle_timestamp) ==
    [d EXCEPT !.pc = "for", !.todo = <<>>, !.pending = <<>>,
              !.errors = Append(@, <<instrument_key, candle_timestamp>>)]

\* main.py 136 and 161-162: the exception raised in an iteration is logged and
\* the for loop goes on with the next instrument.
except_Exception(d, instrument_key, candle_timestamp) ==
    [d EXCEPT !.pc = "for", !.todo = Tail(@), !.pending = <<>>,
              !.errors = Append(@, <<instrument_key, candle_timestamp>>)]

\* main.py 371-373: sys.exit(0) raises SystemExit where the main thread stands;
\* neither `except Exception` (lines 66 and 161) nor `except KeyboardInterrupt`
\* (line 126) catches it.
signal_handler(d) == [d EXCEPT !.pc = "terminated"]

\* A trend day with a listed chain and a day whose chain fetch fails; a candle
\* that scores +12 with a pocket pivot and a flat one.
LoopDays == { <<10500, ListedChain(13, 10)>>, <<9500, <<>> >> }
LoopSignals == { <<10400, Rising, PPV>>, <<10000, Flat, NoVpa>> }

\* main.py 116-119: the top of the while loop, in or out of market hours.
BeginPoll ==
    /\ started
    /\ driver.pc = "while"
    /\ driver.polls < MaxPolls
    /\ \E market_hours \in BOOLEAN :
          driver' = IF market_hours
                    THEN [driver EXCEPT !.pc = "for", !.todo = InstrumentList,
                                        !.polls = @ + 1]
                    ELSE [driver EXCEPT !.pc = "sleep"]
    /\ last' = Call("_trading_loop", None)
    /\ UNCHANGED <<PAPER_TRADING, started, discovered, hunter_zone, open_positions,
                   paper_positions, paper_trades, last_processed_timestamp,
                   latest_volume_cache>>

\* main.py 138: the fetch raises something other than the ApiException that
\* get_intra_day_candle_data catches (data_handler.py 245).
LoopFetchRaises ==
    /\ driver.pc = "for" /\ driver.todo # <<>>
    /\ driver' = except_Exception(driver, Head(driver.todo), 0)
    /\ last' = [Call(PollOp, Head(driver.todo)) EXCEPT !.err = "Exception"]
    /\ UNCHANGED <<PAPER_TRADING, started, discovered, hunter_zone, open_positions,
                   paper_positions, paper_trades, last_processed_timestamp,
                   latest_volume_cache>>

\* main.py 139-140 and 147-148: no candles, or the latest candle is the one
\* already processed.
LoopSkip ==
    /\ driver.pc = "for" /\ driver.todo # <<>>
    /\ LET instrument_key == Head(driver.todo)
       IN  \/ last' = Call(PollOp, instrument_key)
           \/ \E candle_timestamp \in Times :
                 /\ instrument_key \in DOMAIN last_processed_timestamp
                       => candle_timestamp >= last_processed_timestamp[instrument_key]
                 /\ already_processed(instrument_key, candle_timestamp)
                 /\ last' = [Call(PollOp, instrument_key) EXCEPT
                                !.timestamp = candle_timestamp]
    /\ driver' = [driver EXCEPT !.todo = Tail(@)]
    /\ UNCHANGED <<PAPER_TRADING, started, discovered, hunter_zone, open_positions,
                   paper_positions, paper_trades, last_processed_timestamp,
                   latest_volume_cache>>

\* main.py 150-159: a new candle; execute_strategy runs up to the template's
\* entry order (strategy.py 245) or, without an entry, to its end.
LoopCycle ==
    /\ driver.pc = "for" /\ driver.todo # <<>>
    /\ \E candle_timestamp \in Times, day \in LoopDays, signal \in LoopSignals :
          LET instrument_key == Head(driver.todo)
              d == [driver EXCEPT
                       !.cycles = Append(@, <<instrument_key, candle_timestamp>>)]
          IN  /\ instrument_key \in DOMAIN last_processed_timestamp
                    => candle_timestamp >= last_processed_timestamp[instrument_key]
              /\ ~already_processed(instrument_key, candle_timestamp)
              /\ last_processed_timestamp' =
                    Put(last_processed_timestamp, instrument_key, candle_timestamp)
              /\ latest_volume_cache' = Put(latest_volume_cache, instrument_key, Volume)
              /\ \E out \in CycleOutcomes(PollOp, instrument_key, candle_timestamp,
                                          day, signal) :
                    IF /\ instrument_key \notin DOMAIN open_positions
                       /\ instrument_key \in DOMAIN out.M.op
                    THEN \E po \in {place_order(Machine,
                                        out.M.op[instrument_key].instrument_key,
                                        "BUY", out.M.sent[1].tag, candle_timestamp,
                                        TRUE).M} :
                            /\ Commit(po, out.call)
                            /\ driver' = [d EXCEPT !.pc = "entry_placed",
                                             !.pending =
                                               <<[key |-> instrument_key,
                                                  timestamp |-> candle_timestamp,
                                                  position |-> out.M.op[instrument_key]]>>]
                    ELSE /\ Commit(out.M, out.call)
                         /\ driver' = [d EXCEPT !.todo = Tail(@)]
    /\ UNCHANGED <<PAPER_TRADING, started, discovered, hunter_zone>>

\* main.py 320-338: the indicators of execute_strategy raise on the new candle's
\* frame (the timestamp is already recorded, line 150).
LoopCycleRaises ==
    /\ driver.pc = "for" /\ driver.todo # <<>>
    /\ \E candle_timestamp \in Times :
          LET instrument_key == Head(driver.todo)
          IN  /\ instrument_key \in DOMAIN last_processed_timestamp
                    => candle_timestamp >= last_processed_timestamp[instrument_key]
              /\ ~already_processed(instrument_key, candle_timestamp)
              /\ last_processed_timestamp' =
                    Put(last_processed_timestamp, instrument_key, candle_timestamp)
              /\ latest_volume_cache' = Put(latest_volume_cache, instrument_key, Volume)
              /\ driver' = [except_Exception(driver, instrument_key, candle_timestamp)
                              EXCEPT !.cycles =
                                  Append(@, <<instrument_key, candle_timestamp>>)]
              /\ last' = [Call(PollOp, instrument_key) EXCEPT
                             !.timestamp = candle_timestamp, !.err = "Exception"]
    /\ UNCHANGED <<PAPER_TRADING, started, discovered, hunter_zone, open_positions,
                   paper_positions, paper_trades>>

\* strategy.py 258-270: after the entry order, the protective stop.
EntryStop ==
    /\ driver.pc = "entry_placed"
    /\ \E M \in {place_gtt_order(Machine, driver.pending[1].position.instrument_key,
                                 "SELL", driver.pending[1].position.stop_loss_price)} :
          Commit(M, [Call(PollOp, driver.pending[1].key) EXCEPT
                        !.timestamp = driver.pending[1].timestamp])
    /\ driver' = [driver EXCEPT !.pc = "stop_placed"]
    /\ UNCHANGED <<PAPER_TRADING, started, discovered, hunter_zone,
                   last_processed_timestamp, latest_volume_cache>>

\* strategy.py 272-278: the position is recorded and the iteration ends.
EntryRecord ==
    /\ driver.pc = "stop_placed"
    /\ \E M \in {SetOpen(Machine, driver.pending[1].key, driver.pending[1].position)} :
          Commit(M, [Call(PollOp, driver.pending[1].key) EXCEPT
                        !.timestamp = driver.pending[1].timestamp])
    /\ driver' = [driver EXCEPT !.pc = "for", !.todo = Tail(@), !.pending = <<>>]
    /\ UNCHANGED <<PAPER_TRADING, started, discovered, hunter_zone,
                   last_processed_timestamp, latest_volume_cache>>

\* strategy.py 256-257: the ATR or the swing of the entry sequence raises after
\* the entry order was placed.
EntryRaises ==
    /\ driver.pc = "entry_placed"
    /\ driver' = except_Exception(driver, driver.pending[1].key, driver.pending[1].timestamp)
    /\ last' = [Call(PollOp, driver.pending[1].key) EXCEPT
                   !.timestamp = driver.pending[1].timestamp, !.err = "Exception"]
    /\ UNCHANGED <<PAPER_TRADING, started, discovered, hunter_zone, open_positions,
                   paper_positions, paper_trades, last_processed_timestamp,
                   latest_volume_cache>>

\* main.py 119-125: fetch_and_process_candles returns and the loop sleeps.
EndPoll ==
    /\ driver.pc = "for" /\ driver.todo = <<>>
    /\ driver' = [driver EXCEPT !.pc = "sleep"]
    /\ last' = Call("_trading_loop", None)
    /\ UNCHANGED <<PAPER_TRADING, started, discovered, hunter_zone, open_positions,
                   paper_positions, paper_trades, last_processed_timestamp,
                   latest_volume_cache>>

\* main.py 125 and 116: time.sleep returns at the next minute.
Wake ==
    /\ driver.pc = "sleep"
    /\ driver' = [driver EXCEPT !.pc = "while"]
    /\ last' = Call("_trading_loop", None)
    /\ UNCHANGED <<PAPER_TRADING, started, discovered, hunter_zone, open_positions,
                   paper_positions, paper_trades, last_processed_timestamp,
                   latest_volume_cache>>

\* SIGINT, wherever the loop stands.
Sigint ==
    /\ started
    /\ driver.pc # "terminated"
    /\ driver' = signal_handler(driver)
    /\ last' = Call("signal_handler", None)
    /\ UNCHANGED <<PAPER_TRADING, started, discovered, hunter_zone, open_positions,
                   paper_positions, paper_trades, last_processed_timestamp,
                   latest_volume_cache>>

NextLoop ==
    \/ TradingLoopStart
    \/ BeginPoll
    \/ LoopFetchRaises
    \/ LoopSkip
    \/ LoopCycle
    \/ LoopCycleRaises
    \/ EntryStop
    \/ EntryRecord
    \/ EntryRaises
    \/ EndPoll
    \/ Wake
    \/ Sigint

SpecLoop == Init /\ [][NextLoop]_vars

(***************************************************************************)
(* Properties.                                                             *)
(***************************************************************************)

\* C1: when the poll hands a new candle to execute_strategy for an instrument
\* that already has an entry in open_positions, no order is sent and
\* open_positions, the paper mirror and the trade list are left unchanged; the
\* instrument keeps its one position.
C1_DoubleEntryNoOp ==
    [][ ( /\ last'.op = PollOp
          /\ last_processed_timestamp' # last_processed_timestamp
          /\ last'.key \in DOMAIN open_positions )
        => ( /\ last'.sent = <<>>
             /\ open_positions' = open_positions
             /\ paper_positions' = paper_positions
             /\ paper_trades' = paper_trades ) ]_vars

\* C1 witness: a poll took a candle to execute_strategy for an instrument with
\* an open position, on a candle that met the template's exit condition.
C1_Witness ==
    /\ last.op = PollOp
    /\ last.exit_due
    /\ last.key \in DOMAIN open_positions
    /\ last.sent = <<>>

\* C2: in paper mode every step that takes a tracked instrument out of
\* open_positions appends exactly one Trade to paper_trades and leaves the
\* earlier Trades as they were, and no other step touches paper_trades.
C2_CloseAppendsOneTrade ==
    [][ PAPER_TRADING =>
          IF \E i \in INSTRUMENTS :
                i \in DOMAIN open_positions /\ i \notin DOMAIN open_positions'
          THEN /\ Len(paper_trades') = Len(paper_trades) + 1
               /\ SubSeq(paper_trades', 1, Len(paper_trades)) = paper_trades
          ELSE paper_trades' = paper_trades ]_vars

\* C3: the Trade recorded when a position is closed has pnl = exit_price -
\* entry_price for a BULL position and entry_price - exit_price for a BEAR one,
\* entry_price and direction being those of the position as recorded at entry.
C3_TradePnl ==
    [][ Len(paper_trades') = Len(paper_trades) + 1 =>
          LET trade == paper_trades'[Len(paper_trades')]
              position == open_positions[last'.key]
          IN  trade.pnl = IF position.direction = "BULL"
                          THEN trade.exit_price - position.entry_price
                          ELSE position.entry_price - trade.exit_price ]_vars

\* C4: when a candle the poll hands to execute_strategy meets the exit condition
\* of the template that owns the day, for an instrument with an open position,
\* the position is closed in that cycle.
C4_ExitInCycle ==
    (last.op = PollOp /\ last.exit_due) => last.key \notin DOMAIN open_positions

\* C5: monitor_stop_loss closes the position if and only if the direction is BULL
\* and the price is at or below the stop, or BEAR and at or above it; when it
\* triggers it sends exactly one SELL order for the position's traded
\* instrument and the instrument leaves open_positions; otherwise it sends no
\* order and open_positions is unchanged.
C5_StopLossTrigger ==
    [][ last'.op = "monitor_stop_loss" =>
          LET i == last'.key
              position == open_positions[i]
              price == last'.price
              trigger == \/ position.direction = "BULL" /\ price <= position.stop_loss_price
                         \/ position.direction = "BEAR" /\ price >= position.stop_loss_price
              exit_order == [call |-> "place_order",
                             instrument_token |-> position.instrument_key,
                             transaction_type |-> "SELL", tag |-> "stop_loss_exit",
                             broker |-> ~PAPER_TRADING]
          IN  /\ trigger <=> i \notin DOMAIN open_positions'
              /\ trigger => last'.sent = <<exit_order>>
              /\ ~trigger => last'.sent = <<>> /\ open_positions' = open_positions ]_vars

\* C5 witness: monitor_stop_loss closed a position on a price equal to its stop.
C5_Witness ==
    /\ last.op = "monitor_stop_loss"
    /\ last.closed # <<>>
    /\ last.price = last.closed[1].stop_loss_price
    /\ Len(last.sent) = 1

\* C6: in a cycle of the poll for an instrument with an open position, the
\* stop-loss check runs on the new price: when the candle's close is at or
\* beyond the stop, the cycle sends the stop-loss exit order.
C6_StopLossCheckedInCycle ==
    (last.op = PollOp /\ last.stop_due)
        => /\ last.sent # <<>>
           /\ last.sent[1].call = "place_order"
           /\ last.sent[1].tag = "stop_loss_exit"

\* C7: a position is closed at most once: the stop-loss check that comes, in the
\* same cycle, after the template has closed the position is a no-op: it raises
\* no error, sends no order and records no Trade.
C7_SecondCloseNoOp ==
    [][ ( /\ last.closed # <<>>
          /\ last'.op = "monitor_stop_loss"
          /\ last'.key = last.key
          /\ last.key \notin DOMAIN open_positions )
        => ( /\ last'.err = None
             /\ last'.sent = <<>>
             /\ paper_trades' = paper_trades ) ]_vars

\* C8: every position a template records for a tracked instrument has its stop
\* below the entry price when BULL and above it when BEAR.
C8_StopBeyondEntry ==
    \A i \in DOMAIN open_positions \cap INSTRUMENTS :
        LET position == open_positions[i]
        IN  /\ position.direction = "BULL"
                => position.stop_loss_price < position.entry_price
            /\ position.direction = "BEAR"
                => position.stop_loss_price > position.entry_price

\* C9: the stop of a position a template opens is swing - multiplier * ATR for
\* BULL and swing + multiplier * ATR for BEAR, the swing being the minimum low
\* (BULL) or maximum high (BEAR) of the last 20 candles and the multiplier 1.2
\* for HunterTrade, 1.5 for P2PTrend and 0.7 (Scalp) for MeanReversion; with
\* the ATR undefined the buffer is 1% of the entry price.
C9_StopLossFormula ==
    (last.op \in Templates /\ last.entry # <<>>) =>
        LET position == open_positions[last.key]
            atr == last.entry[1].atr
            candles == last.entry[1].candles
            n == Len(candles)
            window == {candles[k] : k \in (IF n > 20 THEN n - 19 ELSE 1)..n}
            swing == IF position.direction = "BULL"
                     THEN CHOOSE x \in {c.low : c \in window} :
                              \A c \in window : x <= c.low
                     ELSE CHOOSE x \in {c.high : c \in window} :
                              \A c \in window : x >= c.high
            tenths == CASE last.op = "HunterTrade" -> 12
                        [] last.op = "P2PTrend" -> 15
                        [] last.op = "MeanReversion" -> 7
            buffer == IF atr = NaN THEN position.entry_price \div 100
                      ELSE (tenths * atr) \div 10
        IN  position.stop_loss_price = IF position.direction = "BULL"
                                       THEN swing - buffer ELSE swing + buffer

\* C9 witness: HunterTrade opened a position on a history longer than 20 candles
\* with a defined ATR.
C9_Witness ==
    /\ last.op = "HunterTrade"
    /\ last.entry # <<>>
    /\ Len(last.entry[1].candles) > 20
    /\ last.entry[1].atr # NaN
    /\ last.key \in DOMAIN open_positions

\* C10: classify_day_type returns exactly one of the five day types for every
\* (opening_price, high, low, pcr), the first matching rule winning: open > high
\* and pcr > 1.2 BULLISH_TREND; open < low and pcr < 0.7 BEARISH_TREND; open >
\* high and pcr < 0.9 SIDEWAYS_BULL_TRAP; open < low and pcr > 1.1
\* SIDEWAYS_BEAR_TRAP; anything else SIDEWAYS_CHOPPY.
C10_ClassifyDayType ==
    last.op = "classify_day_type" =>
        LET a == last.args
            above == a.opening_price > a.hunter_zone_high
            below == a.opening_price < a.hunter_zone_low
            r1 == above /\ 10 * a.pcr.n > 12 * a.pcr.d
            r2 == below /\ 10 * a.pcr.n < 7 * a.pcr.d
            r3 == above /\ 10 * a.pcr.n < 9 * a.pcr.d
            r4 == below /\ 10 * a.pcr.n > 11 * a.pcr.d
        IN  /\ last.result \in DayTypes
            /\ r1 => last.result = "BULLISH_TREND"
            /\ (~r1 /\ r2) => last.result = "BEARISH_TREND"
            /\ (~r1 /\ ~r2 /\ r3) => last.result = "SIDEWAYS_BULL_TRAP"
            /\ (~r1 /\ ~r2 /\ ~r3 /\ r4) => last.result = "SIDEWAYS_BEAR_TRAP"
            /\ (~r1 /\ ~r2 /\ ~r3 /\ ~r4) => last.result = "SIDEWAYS_CHOPPY"

\* C10 witness: an open above the zone with pcr exactly 1.2 classified
\* SIDEWAYS_CHOPPY.
C10_Witness ==
    /\ last.op = "classify_day_type"
    /\ last.args.opening_price > last.args.hunter_zone_high
    /\ 10 * last.args.pcr.n = 12 * last.args.pcr.d
    /\ last.result = "SIDEWAYS_CHOPPY"

\* C11: for defined inputs calculate_microstructure_score is the sum of +5/-5/0
\* for the price against the long EVWMA, +1/-1/0 against the short EVWMA,
\* +5/-5/0 for the sign of the long slope and +1/-1/0 for the sign of the short
\* slope; it lies in -12..12; mirroring every input negates it; with any
\* indicator undefined it is 0.
C11_MicrostructureScore ==
    last.op = "calculate_microstructure_score" =>
        LET a == last.args
            defined == /\ a.evwma_1m # NaN /\ a.evwma_5m # NaN
                       /\ a.evwma_1m_slope # NaN /\ a.evwma_5m_slope # NaN
            sign(x, y) == IF x > y THEN 1 ELSE IF x < y THEN -1 ELSE 0
        IN  /\ last.result \in -12..12
            /\ ~defined => last.result = 0
            /\ defined =>
                  /\ last.result = 5 * sign(a.price, a.evwma_5m)
                                   + sign(a.price, a.evwma_1m)
                                   + 5 * sign(a.evwma_5m_slope, 0)
                                   + sign(a.evwma_1m_slope, 0)
                  /\ calculate_microstructure_score(
                         -a.price, -a.evwma_1m, -a.evwma_5m,
                         -a.evwma_1m_slope, -a.evwma_5m_slope) = -last.result

\* C11 witness: a price below both EVWMAs with both slopes falling scored -12.
C11_Witness ==
    /\ last.op = "calculate_microstructure_score"
    /\ last.args.price < last.args.evwma_1m
    /\ last.args.evwma_1m # NaN
    /\ last.result = -12

\* C13: calculate_probability_score is 20 for pcr_alignment plus 30 for
\* index_sync plus 30 for score_force plus 20 for value_area, for every
\* combination of the four flags, and so one of 0, 20, 30, 40, 50, 60, 70, 80,
\* 90, 100.
C13_ProbabilityScore ==
    last.op = "calculate_probability_score" =>
        LET a == last.args
            w(flag, weight) == IF flag THEN weight ELSE 0
        IN  /\ last.result = w(a.pcr_alignment, 20) + w(a.index_sync, 30)
                              + w(a.score_force, 30) + w(a.value_area, 20)
            /\ last.result \in {0, 20, 30, 40, 50, 60, 70, 80, 90, 100}

\* C13 witness: pcr_alignment and index_sync alone scored 50.
C13_Witness ==
    /\ last.op = "calculate_probability_score"
    /\ last.args.pcr_alignment /\ last.args.index_sync
    /\ ~last.args.score_force /\ ~last.args.value_area
    /\ last.result = 50

C15_PocketPivotVolume ==
    last.op = "detect_pocket_pivot_volume" =>
        LET df == last.args.df
            n == Len(df)
            latest == df[n]
            downs == {k \in 1..(n - 1) : n - k <= 10 /\ df[k].close < df[k].open}
            lowered(v) == [df EXCEPT ![n].volume = v]
        IN  /\ last.result <=> /\ n >= 11
                               /\ latest.close > latest.open
                               /\ downs # {}
                               /\ \A k \in downs : latest.volume > df[k].volume
            /\ last.result =>
                  \A k \in downs :
                      ~detect_pocket_pivot_volume(lowered(df[k].volume - 1), 10)

\* C15 witness: true on a history of 12 candles whose latest volume 16 exceeds
\* the one down candle in the window and not the larger one beyond it.
C15_Witness ==
    /\ last.op = "detect_pocket_pivot_volume"
    /\ last.result
    /\ Len(last.args.df) = 12
    /\ last.args.df[1].close < last.args.df[1].open
    /\ last.args.df[1].volume > last.args.df[12].volume

\* C12: a cycle of the poll whose candle has a positive score with neither
\* pocket pivot volume nor accumulation, or a negative score with neither pivot
\* negative volume nor distribution, executes no template: it sends no order
\* and leaves open_positions unchanged.
C12_VpaGate ==
    [][ (last'.op = PollOp /\ last'.vpa_blocked)
        => ( /\ last'.strategy = None
             /\ last'.sent = <<>>
             /\ open_positions' = open_positions ) ]_vars

\* C12 witness: a cycle that the volume analysis alone stopped: the instrument
\* had no position, a hunter zone, a symbol with an expiry and an option chain.
C12_Witness ==
    /\ last.op = PollOp
    /\ last.vpa_blocked
    /\ last.timestamp > 0
    /\ ~last.no_chain
    /\ discovered
    /\ last.key \in DOMAIN hunter_zone
    /\ last.key \notin DOMAIN open_positions
    /\ last.strategy = None

\* C16: when the option chain lists no contract at the ATM strike for the
\* direction a template wants to enter in (no chain, the strike not listed, the
\* leg missing), the template sends no order and open_positions and the paper
\* positions are unchanged.
C16_NoContractNoEntry ==
    [][ ( /\ last'.op \in Templates
          /\ last'.lookup # None
          /\ last'.lookup \notin last'.contracts )
        => ( /\ last'.sent = <<>>
             /\ open_positions' = open_positions
             /\ paper_positions' = paper_positions ) ]_vars

\* C16 witness: HunterTrade wanted a BEAR entry on a chain whose ATM strike
\* lists only the call.
C16_Witness ==
    /\ last.op = "HunterTrade"
    /\ last.lookup = "BEAR"
    /\ last.contracts = {"BULL"}
    /\ last.sent = <<>>

\* C17: a call whose order the broker did not answer leaves the ledger as it
\* was: no position is added to or removed from open_positions and no Trade is
\* recorded.
C17_FailedOrderNoMutation ==
    [][ (last'.sent # <<>> /\ ~last'.api_ok)
        => ( /\ open_positions' = open_positions
             /\ paper_trades' = paper_trades ) ]_vars

\* C18: a cycle of the poll on a new candle of an instrument that has no hunter
\* zone, or for which no option chain is available, executes no template, sends
\* no order, leaves open_positions, the paper positions and the trade list
\* unchanged and raises nothing.
C18_MissingReferenceData ==
    [][ ( /\ last'.op = PollOp
          /\ last_processed_timestamp' # last_processed_timestamp
          /\ (last'.key \notin DOMAIN hunter_zone \/ last'.no_chain) )
        => ( /\ last'.strategy = None
             /\ last'.sent = <<>>
             /\ last'.err = None
             /\ open_positions' = open_positions
             /\ paper_positions' = paper_positions
             /\ paper_trades' = paper_trades ) ]_vars

\* C18 witness: a cycle that only the missing option chain stopped: the
\* instrument had no position, a hunter zone, a symbol with an expiry, and a
\* candle the volume analysis did not block.
C18_Witness ==
    /\ last.op = PollOp
    /\ last.timestamp > 0
    /\ last.no_chain
    /\ ~last.vpa_blocked
    /\ discovered
    /\ last.key \in DOMAIN hunter_zone
    /\ last.key \notin DOMAIN open_positions
    /\ last.strategy = None

\* C19: the template a cycle of the poll executes is the one bound to the day
\* type classified in that cycle: P2PTrend for BULLISH_TREND and BEARISH_TREND,
\* HunterTrade for SIDEWAYS_BULL_TRAP and SIDEWAYS_BEAR_TRAP, MeanReversion for
\* SIDEWAYS_CHOPPY, never Scalp; it is executed once (the cycle places at most
\* one order); and Scalp's execute, on the bot as it stands, sends no order and
\* changes no position.
C19_TemplateBinding ==
    /\ (last.op = PollOp /\ last.strategy # None) =>
          /\ last.day_type \in {"BULLISH_TREND", "BEARISH_TREND"}
                => last.strategy = "P2PTrend"
          /\ last.day_type \in {"SIDEWAYS_BULL_TRAP", "SIDEWAYS_BEAR_TRAP"}
                => last.strategy = "HunterTrade"
          /\ last.day_type = "SIDEWAYS_CHOPPY" => last.strategy = "MeanReversion"
          /\ last.strategy \in {"P2PTrend", "HunterTrade", "MeanReversion"}
          /\ Cardinality({k \in 1..Len(last.sent) :
                             last.sent[k].call = "place_order"}) <= 1
    /\ \A signal \in Signals, option_chain \in TemplateChains :
          execute("Scalp", Machine,
                  strategy_kwargs(NIFTY_INDEX, HunterZone,
                                  Frame(9500, signal[1], signal[2], signal[3],
                                        NoDetails),
                                  1, option_chain, TRUE)) = Machine

\* C19 witness: a cycle classified SIDEWAYS_BEAR_TRAP executed HunterTrade.
C19_Witness ==
    /\ last.op = PollOp
    /\ last.day_type = "SIDEWAYS_BEAR_TRAP"
    /\ last.strategy = "HunterTrade"

\* C20: in paper mode an option instrument is in paper_positions if and only if
\* it is the traded instrument of a tracked instrument's open position, and
\* the mirrored direction, entry price and stop equal that position's.
C20_PaperMirror ==
    PAPER_TRADING =>
        \A k \in OptionKeys :
            LET holders == {i \in DOMAIN open_positions \cap INSTRUMENTS :
                               open_positions[i].instrument_key = k}
            IN  /\ k \in DOMAIN paper_positions <=> holders # {}
                /\ \A i \in holders :
                      /\ paper_positions[k].direction = open_positions[i].direction
                      /\ paper_positions[k].entry_price = open_positions[i].entry_price
                      /\ paper_positions[k].stop_loss_price
                            = open_positions[i].stop_loss_price

\* C21: in paper mode place_order and place_gtt_order send nothing to the
\* broker; in live mode a call of place_order sends exactly one order to the
\* broker and returns no order response when the broker's API raises.
C21_BrokerCalls ==
    [][ last'.op \in {"place_order", "place_gtt_order"} =>
          LET broker == {k \in 1..Len(last'.sent) : last'.sent[k].broker}
          IN  IF PAPER_TRADING THEN broker = {}
              ELSE last'.op = "place_order" =>
                      /\ Cardinality(broker) = 1
                      /\ ~last'.args.api_ok => ~last'.result ]_vars

\* C21 witness: in live mode the broker's API raised on a place_order, which
\* returned no order response.
C21_Witness ==
    /\ ~PAPER_TRADING
    /\ last.op = "place_order"
    /\ ~last.args.api_ok
    /\ ~last.result
    /\ Len(last.sent) = 1 /\ last.sent[1].broker

\* C22: the tick callback puts the first tick of a minute into the instrument's
\* one-minute candle: it raises nothing, and the candle has open = high = low =
\* close = the tick's last price and volume = its last quantity.
C22_TickAggregation ==
    last.op = "_on_message" =>
        /\ last.err = None
        /\ last.one_minute_candles # None
        /\ last.args.instrument_key \in DOMAIN last.one_minute_candles
        /\ LET candle == last.one_minute_candles[last.args.instrument_key]
           IN  /\ candle.open = last.args.ltp /\ candle.close = last.args.ltp
               /\ candle.high = last.args.ltp /\ candle.low = last.args.ltp
               /\ candle.volume = last.args.ltq

\* C23: a call of execute_strategy in which the short EVWMA, the long EVWMA or
\* one of their slopes is undefined opens no position.
C23_UndefinedInputNoEntry ==
    [][ ( /\ last'.op = "execute_strategy"
          /\ \E k \in 1..4 : last'.args.signal[2][k] = NaN )
        => open_positions' = open_positions ]_vars

\* C24: a call of HunterTrade.execute records a position only for an instrument
\* that had none, with |score| >= SCORE_THRESHOLD and a probability score
\* (20 for the PCR alignment, 30 for the index, 30 for |score| > 10, 20 for a
\* price inside the hunter zone) >= PROBABILITY_THRESHOLD, BULL for a positive
\* score and BEAR for a negative one; it removes no position and sends no
\* SELL order.
C24_HunterEntry ==
    [][ last'.op = "HunterTrade" =>
          LET i == last'.key
              a == last'.args
              opened == /\ i \in DOMAIN open_positions'
                        /\ \E k \in 1..Len(last'.sent) :
                              last'.sent[k].call = "place_gtt_order"
              probability ==
                  (IF \/ (a.pcr.n > a.pcr.d /\ a.score > 0)
                      \/ (a.pcr.n < a.pcr.d /\ a.score < 0) THEN 20 ELSE 0)
                  + 30
                  + (IF a.score > 10 \/ a.score < -10 THEN 30 ELSE 0)
                  + (IF a.price > a.hunter_zone.low /\ a.price < a.hunter_zone.high
                     THEN 20 ELSE 0)
          IN  /\ opened =>
                    /\ i \notin DOMAIN open_positions
                    /\ (a.score >= 7 \/ a.score <= -7)
                    /\ probability >= 75
                    /\ open_positions'[i].direction
                          = IF a.score > 0 THEN "BULL" ELSE "BEAR"
              /\ DOMAIN open_positions \subseteq DOMAIN open_positions'
              /\ \A k \in 1..Len(last'.sent) :
                    last'.sent[k].call = "place_order"
                        => last'.sent[k].transaction_type = "BUY" ]_vars

\* C25: a call of P2PTrend.execute on an instrument with an open position
\* removes the position exactly when the score is positive while BEAR is held
\* or negative while BULL is held; otherwise it leaves every position as it
\* was and sends no order; it never sends a BUY order while a position is
\* open.  On an instrument without a position it records one if and only if
\* |score| >= SCORE_THRESHOLD, the chain lists the contract of the score's
\* direction at the ATM strike and the entry order succeeds; the position is
\* BULL for a positive score and BEAR for a negative one.
C25_P2PTrend ==
    [][ last'.op = "P2PTrend" =>
          LET i == last'.key
              a == last'.args
              direction == IF a.score > 0 THEN "BULL" ELSE "BEAR"
          IN  IF i \in DOMAIN open_positions
              THEN LET flipped ==
                           \/ (a.score > 0 /\ open_positions[i].direction = "BEAR")
                           \/ (a.score < 0 /\ open_positions[i].direction = "BULL")
                   IN  /\ flipped => i \notin DOMAIN open_positions'
                       /\ ~flipped => /\ open_positions' = open_positions
                                      /\ last'.sent = <<>>
                       /\ \A k \in 1..Len(last'.sent) :
                             last'.sent[k].call = "place_order"
                                 => last'.sent[k].transaction_type = "SELL"
              ELSE /\ i \in DOMAIN open_positions'
                      <=> /\ (a.score >= 7 \/ a.score <= -7)
                          /\ direction \in last'.contracts
                          /\ last'.api_ok
                   /\ i \in DOMAIN open_positions'
                         => open_positions'[i].direction = direction ]_vars

\* C25 witness: P2PTrend.execute closed a BEAR position on a positive score.
C25_Witness ==
    /\ last.op = "P2PTrend"
    /\ last.closed # <<>>
    /\ last.closed[1].direction = "BEAR"
    /\ last.args.score > 0

\* C26: a call of MeanReversion.execute on an instrument without a position,
\* with price >= 1.01 * evwma_5m, records a BEAR position, and with
\* price <= 0.99 * evwma_5m a BULL position (the chain listing the contract
\* and the entry order succeeding); with a smaller stretch it records no
\* position and sends no order.
C26_MeanReversionEntry ==
    [][ ( /\ last'.op = "MeanReversion"
          /\ last'.key \notin DOMAIN open_positions
          /\ last'.args.evwma_1m # NaN /\ last'.args.evwma_5m # NaN )
        => LET i == last'.key
               a == last'.args
               above == 100 * a.price >= 101 * a.evwma_5m
               below == 100 * a.price <= 99 * a.evwma_5m
               direction == IF above THEN "BEAR" ELSE "BULL"
           IN  /\ ((above \/ below) /\ direction \in last'.contracts /\ last'.api_ok)
                     => /\ i \in DOMAIN open_positions'
                        /\ open_positions'[i].direction = direction
               /\ ~(above \/ below)
                     => /\ open_positions' = open_positions
                        /\ last'.sent = <<>> ]_vars

\* C27 as stated: a call of MeanReversion.execute on an instrument with an
\* open position removes the position and sends exactly one order, a SELL,
\* when the position is BULL and price >= evwma_1m or BEAR and
\* price <= evwma_1m; otherwise it leaves every position as it was and sends
\* no order.
C27_MeanReversionExit ==
    [][ (last'.op = "MeanReversion" /\ last'.key \in DOMAIN open_positions)
        => LET i == last'.key
               a == last'.args
               reverted ==
                   /\ a.evwma_1m # NaN
                   /\ \/ (open_positions[i].direction = "BULL" /\ a.price >= a.evwma_1m)
                      \/ (open_positions[i].direction = "BEAR" /\ a.price <= a.evwma_1m)
           IN  IF reverted
               THEN /\ i \notin DOMAIN open_positions'
                    /\ Len(last'.sent) = 1
                    /\ last'.sent[1].call = "place_order"
                    /\ last'.sent[1].transaction_type = "SELL"
               ELSE /\ open_positions' = open_positions
                    /\ last'.sent = <<>> ]_vars

\* C27 amended: the same, the position being removed only when both EVWMAs are
\* defined; with evwma_1m or evwma_5m undefined the call leaves every position
\* as it was and sends no order.
C27_MeanReversionExitDefined ==
    [][ (last'.op = "MeanReversion" /\ last'.key \in DOMAIN open_positions)
        => LET i == last'.key
               a == last'.args
               reverted ==
                   /\ a.evwma_1m # NaN /\ a.evwma_5m # NaN
                   /\ \/ (open_positions[i].direction = "BULL" /\ a.price >= a.evwma_1m)
                      \/ (open_positions[i].direction = "BEAR" /\ a.price <= a.evwma_1m)
           IN  IF reverted
               THEN /\ i \notin DOMAIN open_positions'
                    /\ Len(last'.sent) = 1
                    /\ last'.sent[1].call = "place_order"
                    /\ last'.sent[1].transaction_type = "SELL"
               ELSE /\ open_positions' = open_positions
                    /\ last'.sent = <<>> ]_vars

\* C27 witness: MeanReversion.execute closed a BULL position at a price equal to
\* the short EVWMA, both EVWMAs defined.
C27_Witness ==
    /\ last.op = "MeanReversion"
    /\ last.closed # <<>>
    /\ last.closed[1].direction = "BULL"
    /\ last.args.evwma_5m # NaN
    /\ last.args.price = last.args.evwma_1m

\* C28: entry target selection returns the contract of a listed strike nearest
\* to the price, the call for BULL and the put for BEAR, whenever the chain
\* lists that contract at a nearest strike; it returns no contract only when
\* no nearest listed strike has it.
C28_NearestListedStrike ==
    last.op = "get_atm_option_instrument" =>
        LET a == last.args
            listed == {a.option_chain[k].strike_price : k \in 1..Len(a.option_chain)}
            nearest == {x \in listed :
                           \A y \in listed : Abs(x - a.price) <= Abs(y - a.price)}
            leg(k) == IF a.direction = "BULL" THEN a.option_chain[k].call_options
                      ELSE a.option_chain[k].put_options
            targets == {leg(k) : k \in {j \in 1..Len(a.option_chain) :
                                          a.option_chain[j].strike_price \in nearest}}
                       \ {None}
        IN  IF targets # {} THEN last.result \in targets
            ELSE last.result = None

\* C29: a call of execute_strategy whose option chain has a total call open
\* interest of zero skips the instrument: the day is not classified as a trend
\* day, no order is sent and no position is changed.
C29_SentinelPcrSkipped ==
    [][ ( /\ last'.op = "execute_strategy"
          /\ last'.args.day[2] # <<>>
          /\ total_oi(last'.args.day[2], "call", 1) = 0 )
        => /\ last'.day_type \notin {"BULLISH_TREND", "BEARISH_TREND"}
           /\ last'.sent = <<>>
           /\ open_positions' = open_positions ]_vars

\* C30: the decision cycle of one instrument leaves every other instrument as
\* it was: the other instrument's open position (or its absence), the paper
\* mirror entry of the contract that position holds, and the trades recorded
\* so far are unchanged by the cycle.
C30_CyclesIndependent ==
    [][ last'.op = PollOp =>
          /\ \A B \in INSTRUMENTS \ {last'.key} :
                IF B \in DOMAIN open_positions
                THEN /\ B \in DOMAIN open_positions'
                     /\ open_positions'[B] = open_positions[B]
                     /\ LET contract == open_positions[B].instrument_key
                        IN  contract \in DOMAIN paper_positions
                               => /\ contract \in DOMAIN paper_positions'
                                  /\ paper_positions'[contract] = paper_positions[contract]
                ELSE B \notin DOMAIN open_positions'
          /\ Len(paper_trades') >= Len(paper_trades)
          /\ SubSeq(paper_trades', 1, Len(paper_trades)) = paper_trades ]_vars

\* C31: when the processing of an instrument's candle raises (in the fetch, in
\* the indicators or in the template), the for loop stands ready for the
\* instruments that follow it in config.INSTRUMENTS, none dropped; and the
\* process terminates on no step but the SIGINT handler's.
C31_ErrorRecoveredLocally ==
    [][ /\ (last'.op = PollOp /\ last'.err = "Exception")
            => /\ driver'.pc = "for"
               /\ \E k \in 1..Len(InstrumentList) :
                     /\ InstrumentList[k] = last'.key
                     /\ driver'.todo = SubSeq(InstrumentList, k + 1, Len(InstrumentList))
        /\ (driver'.pc = "terminated" /\ driver.pc # "terminated")
            => last'.op = "signal_handler" ]_vars

\* C31 witness: the first instrument's cycle raised after its candle was taken
\* up, and the for loop stands before the second instrument.
C31_Witness ==
    /\ last.op = PollOp /\ last.err = "Exception"
    /\ last.key = NIFTY_INDEX /\ last.timestamp # 0
    /\ driver.pc = "for"
    /\ driver.todo = <<NIFTY_FUT>>

\* C32: when the process has terminated on a SIGINT, no decision cycle was cut
\* short: no entry order has been placed whose protective stop and position
\* were still to come.
C32_ShutdownFinishesCycle ==
    driver.pc = "terminated" => driver.pending = <<>>

\* C33: a call of calculate_hunter_zone gives every tracked instrument the
\* highest high and the lowest low of the candles at or after 14:30 of the
\* latest session before the current day that has such candles (and leaves the
\* instrument's zone alone when the history has no such session); and no other
\* step changes hunter_zone.
C33_HunterZone ==
    [][ /\ last'.op = "calculate_hunter_zone" =>
              \A i \in Tracked :
                  LET candles == last'.args.history[i]
                      rows == {candles[k] : k \in 1..Len(candles)}
                      prior == {c \in rows : c.day < last'.args.current_datetime /\ c.late}
                      session == {c \in prior : \A x \in prior : x.day <= c.day}
                  IN  IF prior = {}
                      THEN /\ (i \in DOMAIN hunter_zone') = (i \in DOMAIN hunter_zone)
                           /\ i \in DOMAIN hunter_zone => hunter_zone'[i] = hunter_zone[i]
                      ELSE /\ i \in DOMAIN hunter_zone'
                           /\ hunter_zone'[i].high = SetMax({c.high : c \in session})
                           /\ hunter_zone'[i].low = SetMin({c.low : c \in session})
        /\ hunter_zone' # hunter_zone => last'.op = "calculate_hunter_zone" ]_vars

\* C34: no (instrument, candle timestamp) starts two calls of execute_strategy;
\* an iteration of the for loop whose latest candle has the timestamp last
\* processed for the instrument starts no cycle, sends no order and changes no
\* position or trade, also when that candle's cycle had raised.
C34_OneCyclePerCandle ==
    [][ /\ \A j, k \in 1..Len(driver'.cycles) :
               j # k => driver'.cycles[j] # driver'.cycles[k]
        /\ ( /\ driver.pc = "for"
             /\ last'.op = PollOp
             /\ last'.key \in DOMAIN last_processed_timestamp
             /\ last'.timestamp = last_processed_timestamp[last'.key] )
            => /\ driver'.cycles = driver.cycles
               /\ last'.sent = <<>>
               /\ open_positions' = open_positions
               /\ paper_positions' = paper_positions
               /\ paper_trades' = paper_trades ]_vars

\* C34 witness: in the second poll the feed returned, for an instrument, the
\* candle whose cycle had raised in the first; the iteration was skipped.
C34_Witness ==
    /\ driver.polls = 2
    /\ driver.pc = "for"
    /\ last.op = PollOp /\ last.err = None /\ last.timestamp # 0
    /\ driver.errors = << <<last.key, last.timestamp>> >>
    /\ driver.cycles = << <<last.key, last.timestamp>> >>

\* C35: a call of HunterTrade.execute sends an order only when |score| > 10 and
\* the PCR is aligned with the score's sign or the price is inside the hunter
\* zone; with |score| from 7 to 10 it sends no order and changes no position.
C35_HunterNeedsForce ==
    [][ last'.op = "HunterTrade" =>
          LET a == last'.args
              force == a.score > 10 \/ a.score < -10
              pcr_alignment == \/ (a.pcr.n > a.pcr.d /\ a.score > 0)
                               \/ (a.pcr.n < a.pcr.d /\ a.score < 0)
              value_area == a.price > a.hunter_zone.low /\ a.price < a.hunter_zone.high
          IN  /\ last'.sent # <<>> => (force /\ (pcr_alignment \/ value_area))
              /\ (~force /\ (a.score >= 7 \/ a.score <= -7))
                    => /\ last'.sent = <<>>
                       /\ open_positions' = open_positions ]_vars

\* C35 witness: HunterTrade.execute was called with a score of -7, the PCR
\* aligned, the price inside the hunter zone and both contracts listed, and
\* sent no order.
C35_Witness ==
    /\ last.op = "HunterTrade"
    /\ last.args.score = -7
    /\ last.args.pcr.n < last.args.pcr.d
    /\ last.args.price > last.args.hunter_zone.low
    /\ last.args.price < last.args.hunter_zone.high
    /\ last.contracts = {"BULL", "BEAR"}
    /\ last.sent = <<>>

\* C36 as stated: a call of execute_strategy that opens a BULL position had a
\* pocket pivot or an accumulation on its candle, and one that opens a BEAR
\* position a negative pivot or a distribution.
C36_DirectionConfirmed ==
    [][ ( /\ last'.op = "execute_strategy"
          /\ last'.key \notin DOMAIN open_positions
          /\ last'.key \in DOMAIN open_positions' )
        => LET vpa == last'.args.signal[3]
               direction == open_positions'[last'.key].direction
           IN  /\ direction = "BULL" => (vpa[1] \/ vpa[3])
               /\ direction = "BEAR" => (vpa[2] \/ vpa[4]) ]_vars

\* C36 amended: the same for the positions opened by HunterTrade and P2PTrend
\* (MeanReversion enters against the price's stretch, whatever the volume
\* signal that let the cycle proceed).
C36_TrendDirectionConfirmed ==
    [][ ( /\ last'.op = "execute_strategy"
          /\ last'.strategy \in {"HunterTrade", "P2PTrend"}
          /\ last'.key \notin DOMAIN open_positions
          /\ last'.key \in DOMAIN open_positions' )
        => LET vpa == last'.args.signal[3]
               direction == open_positions'[last'.key].direction
           IN  /\ direction = "BULL" => (vpa[1] \/ vpa[3])
               /\ direction = "BEAR" => (vpa[2] \/ vpa[4]) ]_vars

\* C36 witness: a cycle with a negative pivot and no bullish signal opened a
\* BEAR position through P2PTrend.
C36_Witness ==
    /\ last.op = "execute_strategy"
    /\ last.strategy = "P2PTrend"
    /\ last.key \in DOMAIN open_positions
    /\ open_positions[last.key].direction = "BEAR"
    /\ last.args.signal[3][2] /\ ~last.args.signal[3][1] /\ ~last.args.signal[3][3]

\* C37: on every frame the bullish confirmations (pocket pivot, accumulation)
\* and the bearish ones (negative pivot, distribution) are never true
\* together, and all four are false when the latest candle closes at its open.
C37_VpaExclusive ==
    last.op = "vpa_signals" =>
        LET r == last.result
            latest_bar == last.args.df[Len(last.args.df)]
        IN  /\ ~((r[1] \/ r[3]) /\ (r[2] \/ r[4]))
            /\ latest_bar.close = latest_bar.open => r = NoVpa

\* C37 witness: a frame whose latest candle is both a pocket pivot and an
\* accumulation.
C37_Witness ==
    /\ last.op = "vpa_signals"
    /\ last.result = <<TRUE, FALSE, TRUE, FALSE>>

\* C38: the place_order calls for an option alternate BUY, SELL from BUY on:
\* a BUY is sent only for an option no open position holds, whichever
\* underlying asks for it, and a SELL only for an option an open position holds.
C38_OrdersAlternate ==
    [][ \A i \in 1..Len(last'.sent) :
          LET o == last'.sent[i]
              held == \E k \in DOMAIN open_positions :
                          open_positions[k].instrument_key = o.instrument_token
          IN  o.call = "place_order" =>
                  /\ o.transaction_type = "BUY" => ~held
                  /\ o.transaction_type = "SELL" => held ]_vars

====
